---------------------------- MODULE Spec2Model ----------------------------
(***************************************************************************)
(* Model of manga_translator/translators/chatgpt.py (OpenAITranslator):    *)
(* the prompt assembler, the response validation inside _translate_batch,  *)
(* the fallback model and the recursive batch splitting.                   *)
(*                                                                         *)
(* A text is a sequence of tokens.  A token is either one character (a     *)
(* one-character string) or one position marker "<|k|>", which the code    *)
(* only ever handles through the regular expression <\|\d+\|> .  A          *)
(* character outside ASCII is written by its code point, "U+3002".         *)
(***************************************************************************)
EXTENDS Integers, Sequences, FiniteSets, TLC

VARIABLES
    \* ---- configuration of the translator instance
    retry_attempts,       \* self._RETRY_ATTEMPTS
    max_split_attempts,   \* self._MAX_SPLIT_ATTEMPTS
    fallback_model,       \* self._fallback_model ("" when not configured)
    max_tokens,           \* self._MAX_TOKENS
    include_template,     \* self.include_template
    \* ---- _translate_batch: the tree of running invocations
    queries,              \* the batch handed to the root invocation
    tasks,                \* invocation id -> its local variables
    n_invocations,        \* number of _translate_batch invocations started
    n_primary,            \* number of _request_with_retry calls of the attempt loops
    n_fallback,           \* number of _request_with_retry calls made by _try_fallback_model
    keys_openai_model,    \* keys.OPENAI_MODEL, the attribute of the module manga_translator.translators.keys
    \* ---- one attempt's parsing and validation, on a given response
    batch_queries,        \* the attempt's batch
    response_text,        \* what _request_with_retry returned
    attempt_result,       \* "pending", or the attempt's outcome
    \* ---- _assemble_prompts
    asm_queries,          \* its argument
    asm_pc,               \* "idle", "loop", "yield", "done"
    asm_i,                \* number of queries the for loop has consumed
    chunk_queries,        \* local chunk_queries
    batch,                \* local batch
    current_length,       \* local current_length
    yielded,              \* the (prompt, batch size) pairs yielded so far
    \* ---- _request_with_retry and _ratelimit_sleep
    max_requests_per_minute,   \* self._MAX_REQUESTS_PER_MINUTE
    timeout_retry_attempts,    \* self._TIMEOUT_RETRY_ATTEMPTS
    ratelimit_retry_attempts,  \* self._RATELIMIT_RETRY_ATTEMPTS
    now,                  \* time.time(), in tenths of a second
    last_request_ts,      \* self._last_request_ts
    calls,                \* running _request_with_retry call -> its local variables
    req_tasks,            \* the tasks made by asyncio.create_task, in dispatch order
    \* ---- the glossary: load_glossary and extract_relevant_terms
    dict_file,            \* the glossary file: its format and its entry lines
    glossary_entries,     \* self.glossary_entries, source term -> target text
    gls_pc,               \* "idle", "file", "loaded", "extracted", "raised"
    prompt_text,          \* the text argument of extract_relevant_terms
    relevant_terms,       \* what extract_relevant_terms returned
    \* ---- _request_translation and the token counters
    token_count,          \* self.token_count
    token_count_last,     \* self.token_count_last
    translations,         \* running _request_translation call -> its local variables
    \* ---- the registry of translators: get_translator and unload
    translator_cache,     \* translator_cache, key -> the instance it holds
    instances,            \* the instances constructed so far, in order
    last_call             \* the last call of get_translator or unload, and how it ended

vars == <<retry_attempts, max_split_attempts, fallback_model, max_tokens, include_template,
          queries, tasks, n_invocations, n_primary, n_fallback, keys_openai_model,
          batch_queries, response_text, attempt_result,
          asm_queries, asm_pc, asm_i, chunk_queries, batch, current_length, yielded,
          max_requests_per_minute, timeout_retry_attempts, ratelimit_retry_attempts,
          now, last_request_ts, calls, req_tasks,
          dict_file, glossary_entries, gls_pc, prompt_text, relevant_terms,
          token_count, token_count_last, translations,
          translator_cache, instances, last_call>>

cfg_vars == <<retry_attempts, max_split_attempts, fallback_model, max_tokens, include_template>>
ctl_vars == <<queries, tasks, n_invocations, n_primary, n_fallback, keys_openai_model>>
val_vars == <<batch_queries, response_text, attempt_result>>
asm_vars == <<asm_queries, asm_pc, asm_i, chunk_queries, batch, current_length, yielded>>
req_vars == <<max_requests_per_minute, timeout_retry_attempts, ratelimit_retry_attempts,
              now, last_request_ts, calls, req_tasks>>
gls_vars == <<dict_file, glossary_entries, gls_pc, prompt_text, relevant_terms>>
trn_vars == <<token_count, token_count_last, translations>>
reg_vars == <<translator_cache, instances, last_call>>

-----------------------------------------------------------------------------
(* Bounds of the model.                                                    *)

MaxBatch == 4      \* largest batch handed to _translate_batch against a request stub
MaxCtlBatch == 3   \* largest batch handed to _translate_batch otherwise
MaxRetry == 1      \* largest configured _RETRY_ATTEMPTS
MaxSplit == 2      \* largest configured _MAX_SPLIT_ATTEMPTS
MaxValBatch == 2   \* largest batch of the validation specification
MaxQueries == 4    \* longest query list handed to _assemble_prompts
MaxTokens == 8     \* largest configured _MAX_TOKENS
MaxTimeoutRetry == 1  \* largest configured _TIMEOUT_RETRY_ATTEMPTS
MaxRatelimitRetry == 1  \* largest configured _RATELIMIT_RETRY_ATTEMPTS
MaxShortBatch == 2    \* largest batch of the controller's runs on short batches
MaxUsage == 2         \* largest response.usage.total_tokens
MaxLines == 3         \* most lines of a response handed to the clean-up
MaxTime == 6          \* the clock stops here (tenths of a second)
MaxInstances == 3     \* most translator instances constructed in one run
MaxRegistryCalls == 4 \* most calls of get_translator and unload in one run

-----------------------------------------------------------------------------
(* Texts.                                                                  *)

Min(a, b) == IF a < b THEN a ELSE b
Max(a, b) == IF a < b THEN b ELSE a

\* The markers "<|k|>" the model writes, by index k.
MARKERS == <<"<|1|>", "<|2|>", "<|3|>", "<|4|>", "<|5|>", "<|6|>", "<|7|>", "<|8|>", "<|9|>">>

Marker(k) == MARKERS[k]

\* re: <\|\d+\|> matches exactly the marker tokens.
IsMarker(tok) == \E k \in DOMAIN MARKERS : MARKERS[k] = tok

\* int(match.group(1))
MarkerIndex(tok) == CHOOSE k \in DOMAIN MARKERS : MARKERS[k] = tok

\* str.strip() removes these.
WHITESPACE == {" ", "\n", "\t"}

\* string.punctuation is ASCII only: the ideographic full stop is not in it.
STRING_PUNCTUATION == {"!", ".", "?", ","}

\* SUSPICIOUS_SYMBOLS of _translate_batch
\* (the three glyphs are written by their code points: U+0B39, U+0B3F, U+0D39)
SUSPICIOUS_SYMBOLS == {"U+0B39", "U+0B3F", "U+0D39"}

RECURSIVE LStrip(_)
LStrip(s) ==
    IF s # <<>> /\ Head(s) \in WHITESPACE THEN LStrip(Tail(s)) ELSE s

RECURSIVE RStrip(_)
RStrip(s) ==
    IF s # <<>> /\ s[Len(s)] \in WHITESPACE THEN RStrip(SubSeq(s, 1, Len(s) - 1)) ELSE s

\* str.strip()
Strip(s) == RStrip(LStrip(s))

\* The pieces of s between the tokens of seps: one more piece than separators,
\* as re.split and str.split return them.  pieces are the finished pieces,
\* piece the one being read.
RECURSIVE SplitFrom(_, _, _, _)
SplitFrom(s, seps, pieces, piece) ==
    IF s = <<>> THEN Append(pieces, piece)
    ELSE IF Head(s) \in seps THEN SplitFrom(Tail(s), seps, Append(pieces, piece), <<>>)
    ELSE SplitFrom(Tail(s), seps, pieces, Append(piece, Head(s)))

SplitOn(s, seps) == SplitFrom(s, seps, <<>>, <<>>)

MarkerTokens == {MARKERS[k] : k \in DOMAIN MARKERS}

\* re.split(r'<\|\d+\|>', text)
ReSplitMarkers(text) == SplitOn(text, MarkerTokens)

\* text.split('\n')
SplitLines(text) == SplitOn(text, {"\n"})

\* re.sub(r'<\|\d+\|>', '', text)
RemoveMarkers(text) == SelectSeq(text, LAMBDA tok : ~IsMarker(tok))

\* [t.strip() for t in parts]
StripAll(parts) == [i \in DOMAIN parts |-> Strip(parts[i])]

\* all(char in string.punctuation for char in text): true of the empty text.
IsSimple(text) == \A i \in DOMAIN text : text[i] \in STRING_PUNCTUATION

\* The index of the first marker of a text that holds one: re.search(r'<\|(\d+)\|>', part)
FirstMarkerIndex(text) ==
    LET i == CHOOSE j \in DOMAIN text :
                 IsMarker(text[j]) /\ \A h \in 1..(j - 1) : ~IsMarker(text[h])
    IN  MarkerIndex(text[i])

HasMarker(text) == \E j \in DOMAIN text : IsMarker(text[j])

RECURSIVE Flatten(_)
Flatten(ss) == IF ss = <<>> THEN <<>> ELSE Head(ss) \o Flatten(Tail(ss))

-----------------------------------------------------------------------------
(* One attempt of _translate_batch: parsing and validation of the response. *)

ParsedSegmentsKeepLeading(resp) == StripAll(ReSplitMarkers(resp))

\* re.split, the strip of every piece, and the drop of a leading empty piece.
ParsedSegments(resp) ==
    LET stripped == StripAll(ReSplitMarkers(resp))
    IN  IF stripped # <<>> /\ Strip(stripped[1]) = <<>> THEN Tail(stripped) ELSE stripped

\* has_invalid_index: a piece after the first one that holds a marker above 1.
HasInvalidIndex(parts) ==
    \E j \in 2..Len(parts) : HasMarker(parts[j]) /\ FirstMarkerIndex(parts[j]) > 1

\* merged_single_query
MergedSingleQuery(resp, bq) ==
    /\ Len(bq) = 1
    /\ Len(ParsedSegments(resp)) > 1
    /\ HasInvalidIndex(ParsedSegments(resp))

\* new_translations as the checks below read it: the single-query merge, or
\* (elif) a second drop of a leading empty piece.
NewTranslations(resp, bq) ==
    LET nt == ParsedSegments(resp)
    IN  IF Len(bq) = 1 /\ Len(nt) > 1
        THEN IF HasInvalidIndex(nt) THEN << Strip(RemoveMarkers(resp)) >> ELSE nt
        ELSE IF nt # <<>> /\ Strip(nt[1]) = <<>> THEN Tail(nt) ELSE nt

\* The for loop over the lines: found_indices, and whether it ended by a break.
RECURSIVE ScanLines(_, _, _)
ScanLines(lines, expected_indices, found_indices) ==
    IF lines = <<>> THEN [valid |-> TRUE, found |-> found_indices]
    ELSE LET line == Strip(Head(lines))
         IN  IF line = <<>> THEN ScanLines(Tail(lines), expected_indices, found_indices)
             ELSE IF IsMarker(line[1])
             THEN LET current_index == MarkerIndex(line[1])
                  IN  IF current_index \in expected_indices
                      THEN IF current_index \in found_indices
                           THEN [valid |-> FALSE, found |-> found_indices]
                           ELSE ScanLines(Tail(lines), expected_indices,
                                          found_indices \cup {current_index})
                      ELSE [valid |-> FALSE, found |-> found_indices]
             ELSE ScanLines(Tail(lines), expected_indices, found_indices)

\* is_valid_format of the strict prefix check (not run after a merge).
IsValidFormat(resp, bq) ==
    LET lines == SplitLines(Strip(resp))
        expected_indices == 1..Len(bq)
        scan == ScanLines(lines, expected_indices, {})
    IN  IF lines = <<>> /\ Len(bq) > 0 THEN FALSE
        ELSE /\ scan.valid
             /\ Cardinality(scan.found) = Len(bq)
             /\ scan.found = expected_indices

HasSuspiciousSymbol(resp) == \E i \in DOMAIN resp : resp[i] \in SUSPICIOUS_SYMBOLS

\* empty_translation_errors is not empty (zip stops at the shorter list).
HasEmptyTranslation(bq, nt) ==
    \E i \in 1..Min(Len(bq), Len(nt)) : Strip(bq[i]) # <<>> /\ nt[i] = <<>>

\* not is_valid_translation
HasMergedTranslation(bq, nt) ==
    \E i \in 1..Min(Len(bq), Len(nt)) : IsSimple(nt[i]) /\ ~IsSimple(bq[i])

AttemptFailed(why, nt) ==
    [done |-> TRUE, ok |-> FALSE, reason |-> why, new_translations |-> nt]

\* The body of the try block after the request: the checks in the code's order.
ValidateAttempt(resp, bq) ==
    LET nt == NewTranslations(resp, bq)
    IN  IF ~MergedSingleQuery(resp, bq) /\ ~IsValidFormat(resp, bq)
            THEN AttemptFailed("format", nt)
        ELSE IF HasSuspiciousSymbol(resp) THEN AttemptFailed("suspicious", nt)
        ELSE IF HasEmptyTranslation(bq, nt) THEN AttemptFailed("empty", nt)
        ELSE IF HasMergedTranslation(bq, nt) THEN AttemptFailed("merged", nt)
        ELSE IF Len(nt) # Len(bq) THEN AttemptFailed("count", nt)
        ELSE [done |-> TRUE, ok |-> TRUE, reason |-> "ok", new_translations |-> nt]

Pending == [done |-> FALSE, ok |-> FALSE, reason |-> "pending", new_translations |-> <<>>]

-----------------------------------------------------------------------------
(* The inputs of the validation specification.                             *)

\* Source texts: a word, the ideographic full stop, ASCII punctuation, a
\* blank and the empty text.
QUERY_TEXTS == { <<"a">>, <<"U+3002">>, <<"!">>, <<" ">>, <<>> }

\* The text a model writes for position k.
TRANSLATION == <<"A", "B", "C", "D", "E", "F", "G", "H", "I">>

Segment(k) == <<TRANSLATION[k]>>

RECURSIVE JoinLines(_)
JoinLines(lines) ==
    IF lines = <<>> THEN <<>>
    ELSE IF Len(lines) = 1 THEN lines[1]
    ELSE lines[1] \o <<"\n">> \o JoinLines(Tail(lines))

\* One line "<|p[j]|>segment of p[j]" per position, in the order p.
WellFormed(p) == JoinLines([j \in DOMAIN p |-> <<Marker(p[j])>> \o Segment(p[j])])

Identity(n) == [j \in 1..n |-> j]

Orders(n) == Permutations(1..n)

ResponseAlphabet(n) ==
    {Marker(k) : k \in 1..(n + 1)} \cup {"A", "!", " ", "\n", "U+0B39"}

InsertAt(s, p, tok) == SubSeq(s, 1, p) \o <<tok>> \o SubSeq(s, p + 1, Len(s))
DeleteAt(s, p) == SubSeq(s, 1, p - 1) \o SubSeq(s, p + 1, Len(s))
ReplaceAt(s, p, tok) == [s EXCEPT ![p] = tok]

\* A text and everything one token away from it.
OneEdit(s, alphabet) ==
    {s} \cup {InsertAt(s, p, tok) : p \in 0..Len(s), tok \in alphabet}
        \cup {DeleteAt(s, p) : p \in 1..Len(s)}
        \cup {ReplaceAt(s, p, tok) : p \in 1..Len(s), tok \in alphabet}

\* The responses tried against a batch of size n: the empty response, the
\* well-formed response in every order of its lines, and every text one
\* token away from one of these.
Responses(n) ==
    UNION {OneEdit(base, ResponseAlphabet(n)) :
               base \in {<<>>} \cup {WellFormed(p) : p \in Orders(n)}}

IdleConfig ==
    /\ retry_attempts = 0
    /\ max_split_attempts = 0
    /\ fallback_model = ""
    /\ max_tokens = 0
    /\ include_template = FALSE

\* from .keys import OPENAI_MODEL: the name of the chatgpt module, bound when
\* the module is imported and assigned nowhere.
OPENAI_MODEL == "primary-model"

IdleController ==
    /\ keys_openai_model = OPENAI_MODEL
    /\ queries = <<>>
    /\ tasks = <<>>
    /\ n_invocations = 0
    /\ n_primary = 0
    /\ n_fallback = 0

IdleValidate ==
    /\ batch_queries = <<>>
    /\ response_text = <<>>
    /\ attempt_result = Pending

IdleRequest ==
    /\ max_requests_per_minute = 0
    /\ timeout_retry_attempts = 0
    /\ ratelimit_retry_attempts = 0
    /\ now = 0
    /\ last_request_ts = 0
    /\ calls = <<>>
    /\ req_tasks = <<>>

\* self.token_count = 0; self.token_count_last = 0
IdleTranslation ==
    /\ token_count = 0
    /\ token_count_last = 0
    /\ translations = <<>>

\* No call of get_translator or unload has been made; translator_cache = {}.
NO_CALL == [n |-> 0, op |-> "none", key |-> "", args |-> "", raised |-> FALSE, result |-> 0]

IdleRegistry ==
    /\ translator_cache = <<>>
    /\ instances = <<>>
    /\ last_call = NO_CALL

IdleGlossary ==
    /\ dict_file = <<>>
    /\ glossary_entries = <<>>
    /\ gls_pc = "idle"
    /\ prompt_text = <<>>
    /\ relevant_terms = <<>>

IdleAssemble ==
    /\ asm_queries = <<>>
    /\ asm_pc = "idle"
    /\ asm_i = 0
    /\ chunk_queries = <<>>
    /\ batch = <<>>
    /\ current_length = 0
    /\ yielded = <<>>

InitValidate ==
    /\ IdleConfig /\ IdleController /\ IdleAssemble /\ IdleRequest /\ IdleGlossary /\ IdleTranslation /\ IdleRegistry
    /\ \E n \in 1..MaxValBatch :
          /\ batch_queries \in [1..n -> QUERY_TEXTS]
          /\ response_text \in Responses(n)
    /\ attempt_result = Pending

\* The attempt parses and validates the response it received.
Validate ==
    /\ ~attempt_result.done
    /\ attempt_result' = ValidateAttempt(response_text, batch_queries)
    /\ UNCHANGED <<batch_queries, response_text>>
    /\ UNCHANGED <<cfg_vars, trn_vars, reg_vars, req_vars, gls_vars, ctl_vars, asm_vars>>

NextValidate == Validate

SpecValidate == InitValidate /\ [][NextValidate]_vars

\* A batch of one query answered as if it were a longer batch: the answer
\* written for two positions, in either order of its lines, and every text one
\* token away from it.
InitSingleQuery ==
    /\ IdleConfig /\ IdleController /\ IdleAssemble /\ IdleRequest /\ IdleGlossary /\ IdleTranslation /\ IdleRegistry
    /\ batch_queries \in [1..1 -> QUERY_TEXTS]
    /\ response_text \in Responses(2)
    /\ attempt_result = Pending

SpecSingleQuery == InitSingleQuery /\ [][NextValidate]_vars

-----------------------------------------------------------------------------
(* _try_fallback_model: what one iteration makes of the response.          *)

\* fb_translations: re.split, strip, one drop of a leading empty piece.
FbTranslations(resp) == ParsedSegments(resp)

\* valid_translations
ValidTranslations(fb, bq) ==
    Cardinality({i \in DOMAIN fb : Strip(fb[i]) # <<>> /\ Strip(fb[i]) # Strip(bq[i])})

ResultListKeepsBlanks(fb, bq) == fb

ResultListDropsBlanks(fb, bq) == SelectSeq(fb, LAMBDA txt : txt # <<>>)

\* result_list.append(txt if txt else batch_queries[i])
ResultList(fb, bq) == [i \in DOMAIN fb |-> IF fb[i] # <<>> THEN fb[i] ELSE bq[i]]

\* Which positions of result_list hold the source text put there by the code.
ResultFilled(fb) == [i \in DOMAIN fb |-> IF fb[i] # <<>> THEN "model" ELSE "fallback_source"]

\* The iteration returns (True, result_list), or goes on to the next one.
FallbackAccepts(resp, bq) ==
    /\ Len(FbTranslations(resp)) = Len(bq)
    /\ ValidTranslations(FbTranslations(resp), bq) # 0

\* What one iteration of the fallback's loop makes of a response: the count
\* check, the valid-translation check, result_list.
FallbackCheck(resp, bq) ==
    LET fb == FbTranslations(resp)
    IN  IF Len(fb) # Len(bq) THEN AttemptFailed("count", fb)
        ELSE IF ValidTranslations(fb, bq) = 0 THEN AttemptFailed("no_valid", fb)
        ELSE [done |-> TRUE, ok |-> TRUE, reason |-> "ok",
              new_translations |-> ResultList(fb, bq)]

\* The fallback parses and checks the response it received.
ValidateFallback ==
    /\ ~attempt_result.done
    /\ attempt_result' = FallbackCheck(response_text, batch_queries)
    /\ UNCHANGED <<batch_queries, response_text>>
    /\ UNCHANGED <<cfg_vars, trn_vars, reg_vars, req_vars, gls_vars, ctl_vars, asm_vars>>

NextFallbackCheck == ValidateFallback

SpecFallbackCheck == InitValidate /\ [][NextFallbackCheck]_vars

-----------------------------------------------------------------------------
(* _translate_batch: the tree of invocations.                              *)

\* The source text of position i of the root batch.
SOURCE == <<"a", "b", "c", "d", "e", "f", "g", "h", "i">>

RootBatch(n) == [i \in 1..n |-> <<SOURCE[i]>>]

\* What _request_with_retry raises (all are subclasses of Exception).
REQUEST_ERRORS == {"Timeout", "RateLimited", "ServerError", "Fatal"}

Returned(text) == [kind |-> "returned", text |-> text]
Raised(kind) == [kind |-> kind, text |-> <<>>]

\* The well-formed answer with the text of its last position left out.
LastEmpty(n) == SubSeq(WellFormed(Identity(n)), 1, Len(WellFormed(Identity(n))) - 1)

\* The texts the request stub returns for a batch.
StubTexts(bq) == { <<>>, WellFormed(Identity(Len(bq))), LastEmpty(Len(bq)) }

\* Every outcome of one _request_with_retry call.
Outcomes(bq) == {Returned(text) : text \in StubTexts(bq)} \cup {Raised(e) : e \in REQUEST_ERRORS}

\* The stub that always returns malformed output.
MalformedOutcomes(bq) ==
    {Returned(text) : text \in {x \in StubTexts(bq) : ~ValidateAttempt(x, bq).ok}}

\* What a correctly structured answer may hold for position k.
GoodSegments(k) == { Segment(k), Segment(k) \o <<"!">> }

\* The stub that always returns a correctly structured answer: one line
\* "<|k|>segment" per position, in order.
GoodOutcomes(bq) ==
    {Returned(JoinLines([k \in DOMAIN bq |-> <<Marker(k)>> \o seg[k]])) :
         seg \in {f \in [DOMAIN bq -> UNION {GoodSegments(k) : k \in DOMAIN bq}] :
                      \A k \in DOMAIN bq : f[k] \in GoodSegments(k)}}

MaxAttemptsOneMore == Max(1, retry_attempts + 2)

\* max_attempts = max(1, self._RETRY_ATTEMPTS + 1)
MaxAttempts == Max(1, retry_attempts + 1)

\* fallback_max_attempts
FALLBACK_MAX_ATTEMPTS == 2

CaughtOnlyApiErrors(kind) == kind \in {"RateLimited", "ServerError"}

\* "except Exception" of the attempt loop
CaughtByAttemptLoop(kind) == kind \in REQUEST_ERRORS

\* "except Exception as fb_err" of _try_fallback_model
CaughtByFallback(kind) == kind \in REQUEST_ERRORS

\* "except Exception" around asyncio.gather
CaughtByGather(kind) == kind \in REQUEST_ERRORS

AllOf(n, tag) == [i \in 1..n |-> tag]

\* No request is in flight, or the local is not bound.
NO_MODEL == ""

\* model=OPENAI_MODEL in client.chat.completions.create: the model every
\* request of _request_translation is sent with.
RequestModel == OPENAI_MODEL

\* The locals of a fresh invocation: partial_results = [''] * len(batch_queries);
\* an empty batch returns (True, partial_results) at once.
NewTask(bq, indices, level) ==
    [ batch_queries   |-> bq,
      batch_indices   |-> indices,
      split_level     |-> level,
      pc              |-> IF bq = <<>> THEN "done" ELSE "attempting",
      model           |-> IF bq = <<>> THEN NO_MODEL ELSE RequestModel,
      original_model_const |-> NO_MODEL,
      attempt         |-> 0,
      fb_site         |-> "none",
      fb_attempt      |-> 0,
      success         |-> (bq = <<>>),
      partial_results |-> AllOf(Len(bq), <<>>),
      path            |-> IF bq = <<>> THEN "empty" ELSE "running",
      filled          |-> AllOf(Len(bq), "blank"),
      left            |-> [success |-> FALSE, results |-> <<>>, filled |-> <<>>] ]

\* return success, partial_results (the other locals die with the call)
Return(t, ok, results, path, filled) ==
    [t EXCEPT !.pc = "done", !.success = ok, !.partial_results = results,
              !.path = path, !.filled = filled,
              !.attempt = 0, !.fb_site = "none", !.fb_attempt = 0,
              !.model = NO_MODEL, !.original_model_const = NO_MODEL,
              !.left = [success |-> FALSE, results |-> <<>>, filled |-> <<>>]]

\* The exception leaves _translate_batch.
Propagate(t) == [t EXCEPT !.pc = "raised", !.path = "raised"]

LeftId(id) == 2 * id
RightId(id) == 2 * id + 1

TerminalResultsLeftBlank(t) == t.partial_results

\* for i in range(len(batch_queries)): partial_results[i] = batch_queries[i]
TerminalResults(t) == t.batch_queries

TerminalFailedReportsSuccess(t) ==
    Return(t, TRUE, TerminalResults(t), "terminal", AllOf(Len(t.batch_queries), "source"))

\* The else branch: no further split; return False, partial_results.
TerminalFailed(t) ==
    Return(t, FALSE, TerminalResults(t), "terminal", AllOf(Len(t.batch_queries), "source"))

MidRoundedUp(bq) == (Len(bq) + 1) \div 2

\* mid = len(batch_queries) // 2
Mid(bq) == Len(bq) \div 2

\* split_level < self._MAX_SPLIT_ATTEMPTS and len(batch_queries) > 1
CanSplit(t) == t.split_level < max_split_attempts /\ Len(t.batch_queries) > 1

\* After all retries and the fallback failed: split into two halves run by
\* asyncio.gather, or give up.  The result maps each changed invocation to
\* its locals.
SplitOrTerminal(id, t) ==
    IF CanSplit(t)
    THEN LET mid == Mid(t.batch_queries)
             n == Len(t.batch_queries)
         IN  (id :> [t EXCEPT !.pc = "splitting", !.model = NO_MODEL,
                                  !.original_model_const = NO_MODEL])
             @@ (LeftId(id) :> NewTask(SubSeq(t.batch_queries, 1, mid),
                                       SubSeq(t.batch_indices, 1, mid),
                                       t.split_level + 1))
             @@ (RightId(id) :> NewTask(SubSeq(t.batch_queries, mid + 1, n),
                                        SubSeq(t.batch_indices, mid + 1, n),
                                        t.split_level + 1))
    ELSE (id :> TerminalFailed(t))

\* any(partial_results)
AnyResult(t) == \E i \in DOMAIN t.partial_results : t.partial_results[i] # <<>>

\* keys.OPENAI_MODEL as the running step of invocation t finds it: the finally
\* clause of a fallback iteration has put back what the iteration read.
KeysModel(t) == IF t.pc = "fallback" THEN t.original_model_const ELSE keys_openai_model

\* _try_fallback_model entered from `site`: without a fallback model it
\* returns (False, []) at once, otherwise its first request is sent.
RECURSIVE TryFallback(_, _, _)
TryFallback(id, t, site) ==
    IF fallback_model = ""
    THEN IF site = "except" THEN
             \* the loop is over: "if not any(partial_results)" tries again
             IF ~AnyResult(t) THEN TryFallback(id, t, "after_loop")
             ELSE SplitOrTerminal(id, t)
         ELSE SplitOrTerminal(id, t)
    ELSE (id :> [t EXCEPT !.pc = "fallback", !.fb_site = site, !.fb_attempt = 0,
                          !.original_model_const = KeysModel(t),
                          !.model = RequestModel])

\* The for loop ended without a return.
AfterLoop(id, t) ==
    IF ~AnyResult(t) THEN TryFallback(id, t, "after_loop") ELSE SplitOrTerminal(id, t)

\* An attempt failed validation: continue.
ContinueLoop(id, t) ==
    IF t.attempt + 1 < MaxAttempts
    THEN (id :> [t EXCEPT !.attempt = t.attempt + 1])
    ELSE AfterLoop(id, t)

ExceptInLoopFallsBackAtOnce(id, t) == TryFallback(id, t, "except")

\* An attempt raised: sleep and go on, or on the last one try the fallback.
ExceptInLoop(id, t) ==
    IF t.attempt < MaxAttempts - 1
    THEN (id :> [t EXCEPT !.attempt = t.attempt + 1])
    ELSE TryFallback(id, t, "except")

\* One pass of the attempt loop, from the request to the next await.
AttemptStep(id, t, outcome) ==
    IF outcome.kind = "returned"
    THEN LET v == ValidateAttempt(outcome.text, t.batch_queries)
         IN  IF v.ok
             THEN (id :> Return(t, TRUE, v.new_translations, "primary",
                                AllOf(Len(t.batch_queries), "model")))
             ELSE ContinueLoop(id, t)
    ELSE IF CaughtByAttemptLoop(outcome.kind) THEN ExceptInLoop(id, t)
    ELSE (id :> Propagate(t))

\* _try_fallback_model returned (False, []).
FallbackFailed(id, t) ==
    IF t.fb_site = "except" THEN AfterLoop(id, [t EXCEPT !.fb_site = "none"])
    ELSE SplitOrTerminal(id, [t EXCEPT !.fb_site = "none"])

\* The fallback's for loop goes to its next iteration, or ends.
NextFallbackTry(id, t) ==
    IF t.fb_attempt < FALLBACK_MAX_ATTEMPTS
    THEN (id :> [t EXCEPT !.fb_attempt = t.fb_attempt + 1,
                          !.original_model_const = KeysModel(t),
                          !.model = RequestModel])
    ELSE FallbackFailed(id, t)

FallbackStepIgnoresSuccess(id, t, outcome) == NextFallbackTry(id, t)

\* One iteration of the fallback's loop, from the request to the next await.
FallbackStep(id, t, outcome) ==
    IF outcome.kind = "returned"
    THEN LET fb == FbTranslations(outcome.text)
         IN  IF FallbackAccepts(outcome.text, t.batch_queries)
             THEN (id :> Return(t, TRUE, ResultList(fb, t.batch_queries), "fallback",
                                ResultFilled(fb)))
             ELSE NextFallbackTry(id, t)
    ELSE IF CaughtByFallback(outcome.kind) THEN NextFallbackTry(id, t)
    ELSE (id :> Propagate(t))

\* tasks with the invocations of upd added or replaced and those of gone removed.
Updated(upd, gone) ==
    [x \in (DOMAIN tasks \ gone) \cup DOMAIN upd |->
        IF x \in DOMAIN upd THEN upd[x] ELSE tasks[x]]

Halves(t) ==
    LET mid == Mid(t.batch_queries)
        n == Len(t.batch_queries)
    IN  [ left  |-> NewTask(SubSeq(t.batch_queries, 1, mid),
                            SubSeq(t.batch_indices, 1, mid), t.split_level + 1),
          right |-> NewTask(SubSeq(t.batch_queries, mid + 1, n),
                            SubSeq(t.batch_indices, mid + 1, n), t.split_level + 1) ]

MergedRightFirst(t, l, r) ==
    Return(t, l.success /\ r.success, r.results \o l.results, "merged", r.filled \o l.filled)

MergedWithOr(t, l, r) ==
    Return(t, l.success \/ r.success, l.results \o r.results, "merged", l.filled \o r.filled)

\* return (left_success and right_success), (left_results + right_results)
Merged(t, l, r) ==
    Return(t, l.success /\ r.success, l.results \o r.results, "merged", l.filled \o r.filled)

ResultOf(c) == [success |-> c.success, results |-> c.partial_results, filled |-> c.filled]

\* The invocation's await of its two halves ends: gather returns both results
\* or raises the first exception of a half; in the except branch the halves
\* are run again one after the other.
JoinStep(id, t) ==
    LET l == LeftId(id)
        r == RightId(id)
    IN  CASE t.pc = "splitting" /\ tasks[l].pc = "done" /\ tasks[r].pc = "done" ->
                 Updated(id :> Merged(t, ResultOf(tasks[l]), ResultOf(tasks[r])), {l, r})
          [] t.pc = "splitting" /\ (tasks[l].pc = "raised" \/ tasks[r].pc = "raised") ->
                 IF CaughtByGather("Fatal")
                 THEN Updated((id :> [t EXCEPT !.pc = "sequential_left"])
                              @@ (l :> Halves(t).left), {r})
                 ELSE Updated(id :> Propagate(t), {l, r})
          [] t.pc = "sequential_left" /\ tasks[l].pc = "done" ->
                 Updated((id :> [t EXCEPT !.pc = "sequential_right",
                                          !.left = ResultOf(tasks[l])])
                         @@ (r :> Halves(t).right), {l})
          [] t.pc = "sequential_right" /\ tasks[r].pc = "done" ->
                 Updated(id :> Merged(t, t.left, ResultOf(tasks[r])), {r})
          [] OTHER -> Updated(id :> Propagate(t), {l, r})

JoinReady(id) ==
    LET t == tasks[id]
        l == LeftId(id)
        r == RightId(id)
        ended(c) == c \in DOMAIN tasks /\ tasks[c].pc \in {"done", "raised"}
    IN  \/ t.pc = "splitting" /\ l \in DOMAIN tasks /\ r \in DOMAIN tasks
           /\ \/ tasks[l].pc = "done" /\ tasks[r].pc = "done"
              \/ tasks[l].pc = "raised"
              \/ tasks[r].pc = "raised"
        \/ t.pc = "sequential_left" /\ ended(l)
        \/ t.pc = "sequential_right" /\ ended(r)

\* keys.OPENAI_MODEL when the step of invocation id reaches its next await:
\* a fallback iteration has set it to the fallback model (line 210) and awaits
\* its request; any other step leaves what it found or what the finally
\* clause restored (line 266).
KeysAfter(id) ==
    IF id \in DOMAIN tasks' /\ tasks'[id].pc = "fallback"
    THEN fallback_model
    ELSE KeysModel(tasks[id])

\* The step of invocation id with its write of keys.OPENAI_MODEL.
Swap(id) == keys_openai_model' = KeysAfter(id)

\* The _request_with_retry calls _try_fallback_model makes in the step of
\* invocation id: one when an iteration of its loop starts.
FallbackRequests(id) ==
    IF /\ id \in DOMAIN tasks' /\ tasks'[id].pc = "fallback"
       /\ \/ tasks[id].pc # "fallback"
          \/ tasks'[id].fb_site # tasks[id].fb_site
          \/ tasks'[id].fb_attempt # tasks[id].fb_attempt
    THEN 1 ELSE 0

\* ---- actions

\* An invocation's primary request ends and its attempt runs to the next await.
AttemptPrimary(id, outcome) ==
    /\ tasks[id].pc = "attempting"
    /\ tasks' = Updated(AttemptStep(id, tasks[id], outcome), {})
    /\ UNCHANGED <<queries, cfg_vars, trn_vars, reg_vars, req_vars, gls_vars, val_vars, asm_vars>>

\* An invocation's fallback request ends and _try_fallback_model runs on.
AttemptFallback(id, outcome) ==
    /\ tasks[id].pc = "fallback"
    /\ tasks' = Updated(FallbackStep(id, tasks[id], outcome), {})
    /\ UNCHANGED <<queries, cfg_vars, trn_vars, reg_vars, req_vars, gls_vars, val_vars, asm_vars>>

\* The await of the halves ends.
Join(id) ==
    /\ JoinReady(id)
    /\ tasks' = JoinStep(id, tasks[id])
    /\ UNCHANGED <<queries, cfg_vars, trn_vars, reg_vars, req_vars, gls_vars, val_vars, asm_vars>>

\* The call counts a request stub keeps: the specifications that run the
\* controller against a stub count, the others do not.
Uncounted == UNCHANGED <<n_invocations, n_primary, n_fallback>>

\* The specifications of the controller's control flow leave the module
\* attribute out: the controller never reads it.
Unswapped == UNCHANGED keys_openai_model

\* The count of the fallback's requests.
CountFallback(id) ==
    /\ n_fallback' = n_fallback + FallbackRequests(id)
    /\ UNCHANGED <<n_invocations, n_primary>>

CountPrimary ==
    /\ n_primary' = n_primary + 1
    /\ n_invocations' = n_invocations + Cardinality(DOMAIN tasks' \ DOMAIN tasks)
    /\ n_fallback' = n_fallback

CountJoin ==
    /\ n_invocations' = n_invocations
           + Cardinality({c \in DOMAIN tasks' \cap DOMAIN tasks :
                             tasks'[c].pc = "attempting" /\ tasks[c].pc # "attempting"})
    /\ UNCHANGED <<n_primary, n_fallback>>

FALLBACK_MODELS == {"", "fallback-model"}

\* _translate calls _translate_batch(..., split_level=0) on a batch.
InitController(sizes, models) ==
    /\ retry_attempts \in 0..MaxRetry
    /\ max_split_attempts \in 0..MaxSplit
    /\ fallback_model \in models
    /\ max_tokens = 0
    /\ include_template = FALSE
    /\ \E n \in sizes :
          /\ queries = RootBatch(n)
          /\ tasks = (1 :> NewTask(RootBatch(n), [i \in 1..n |-> i - 1], 0))
    /\ n_invocations = 1
    /\ n_primary = 0
    /\ n_fallback = 0
    /\ keys_openai_model = OPENAI_MODEL
    /\ IdleValidate /\ IdleAssemble /\ IdleRequest /\ IdleGlossary /\ IdleTranslation /\ IdleRegistry

Init == InitController(0..MaxCtlBatch, FALLBACK_MODELS)

Next ==
    /\ Uncounted /\ Unswapped
    /\ \E id \in DOMAIN tasks :
         \/ \E outcome \in Outcomes(tasks[id].batch_queries) : AttemptPrimary(id, outcome)
         \/ \E outcome \in Outcomes(tasks[id].batch_queries) : AttemptFallback(id, outcome)
         \/ Join(id)

Spec == Init /\ [][Next]_vars

\* The request stub always returns malformed output; no fallback model.
InitAllFail == InitController(1..MaxBatch, {""})

NextAllFail ==
    \E id \in DOMAIN tasks :
        \/ \E outcome \in MalformedOutcomes(tasks[id].batch_queries) :
               AttemptPrimary(id, outcome) /\ CountPrimary /\ Swap(id)
        \/ Join(id) /\ CountJoin /\ Swap(id)

\* A step some invocation can take whenever it can take any: its request
\* ends (here with the empty answer, which no batch accepts), or the await of
\* its halves ends.
Progress ==
    \E id \in DOMAIN tasks :
        \/ AttemptPrimary(id, Returned(<<>>)) /\ CountPrimary /\ Swap(id)
        \/ Join(id) /\ CountJoin /\ Swap(id)

\* Every started request ends and every ended pair of halves is joined: the
\* event loop runs every task that is ready.
SpecAllFail == InitAllFail /\ [][NextAllFail]_vars /\ WF_vars(Progress)

\* The request stub always returns the correctly structured answer.
InitAllGood == InitController(1..MaxBatch, FALLBACK_MODELS)

NextAllGood ==
    \E id \in DOMAIN tasks :
        \E outcome \in GoodOutcomes(tasks[id].batch_queries) :
            AttemptPrimary(id, outcome) /\ CountPrimary /\ Swap(id)

SpecAllGood == InitAllGood /\ [][NextAllGood]_vars

\* The controller on short batches: every step is compared with every answer
\* of the stub.
InitShort == InitController(1..MaxShortBatch, FALLBACK_MODELS)

SpecShort == InitShort /\ [][Next]_vars

\* The controller with a fallback model, the module attribute and the count
\* of the fallback's requests.
InitFallbackModel == InitController(1..MaxCtlBatch, {"fallback-model"})

NextFallbackModel ==
    \E id \in DOMAIN tasks :
        \/ \E outcome \in Outcomes(tasks[id].batch_queries) :
               AttemptPrimary(id, outcome) /\ CountFallback(id) /\ Swap(id)
        \/ \E outcome \in Outcomes(tasks[id].batch_queries) :
               AttemptFallback(id, outcome) /\ CountFallback(id) /\ Swap(id)
        \/ Join(id) /\ CountFallback(id) /\ Swap(id)

SpecFallbackModel == InitFallbackModel /\ [][NextFallbackModel]_vars

-----------------------------------------------------------------------------
(* _assemble_prompts: the chunks of a query list and the prompts yielded.  *)

\* The query texts handed to the assembler: of 0, 1, 2 and 11 characters, one
\* of them ending in a blank; the longest costs more than a budget that
\* holds two of the shortest.
ASM_TEXTS == { <<>>, <<"a">>, <<"a", " ">>,
               <<"a", "b", "c", "d", "e", "f", "g", "h", "i", "j", "k">> }

\* self.prompt_template.format(to_lang=lang_name)
PROMPT_TEMPLATE == <<"T", ":">>

\* MAX_CHAR_PER_PROMPT = self._MAX_TOKENS * 4
MAX_CHAR_PER_PROMPT == max_tokens * 4

\* len(q) + 10
Cost(q) == Len(q) + 10

ShouldFlushAnEmptyBatch(q) == current_length + Cost(q) > MAX_CHAR_PER_PROMPT

ShouldFlushIgnoresQuery(q) == current_length > MAX_CHAR_PER_PROMPT /\ batch # <<>>

\* if current_length + len(q) + 10 > MAX_CHAR_PER_PROMPT and batch
ShouldFlush(q) == current_length + Cost(q) > MAX_CHAR_PER_PROMPT /\ batch # <<>>

\* if batch: chunk_queries.append(batch)
FlushedChunks == IF batch # <<>> THEN Append(chunk_queries, batch) ELSE chunk_queries

PromptNumberedFromTwo(this_batch) ==
    LStrip((IF include_template THEN PROMPT_TEMPLATE ELSE <<>>)
           \o Flatten([i \in DOMAIN this_batch |-> <<"\n", Marker(i + 1)>> \o this_batch[i]]))

\* The prompt of one chunk: the template if asked for, one "\n<|i|>query"
\* per query, and lstrip().
Prompt(this_batch) ==
    LStrip((IF include_template THEN PROMPT_TEMPLATE ELSE <<>>)
           \o Flatten([i \in DOMAIN this_batch |-> <<"\n", Marker(i)>> \o this_batch[i]]))

InitAssemble ==
    /\ retry_attempts = 0
    /\ max_split_attempts = 0
    /\ fallback_model = ""
    /\ max_tokens \in 1..MaxTokens
    /\ include_template \in BOOLEAN
    /\ IdleController /\ IdleValidate /\ IdleRequest /\ IdleGlossary /\ IdleTranslation /\ IdleRegistry
    /\ asm_queries \in UNION {[1..n -> ASM_TEXTS] : n \in 0..MaxQueries}
    /\ asm_pc = "loop"
    /\ asm_i = 0
    /\ chunk_queries = <<>>
    /\ batch = <<>>
    /\ current_length = 0
    /\ yielded = <<>>

\* One pass of "for q in queries".
AssembleLoop ==
    /\ asm_pc = "loop"
    /\ asm_i < Len(asm_queries)
    /\ LET q == asm_queries[asm_i + 1]
       IN  /\ chunk_queries' = IF ShouldFlush(q) THEN Append(chunk_queries, batch)
                                                 ELSE chunk_queries
           /\ batch' = Append(IF ShouldFlush(q) THEN <<>> ELSE batch, q)
           /\ current_length' = (IF ShouldFlush(q) THEN 0 ELSE current_length) + Cost(q)
    /\ asm_i' = asm_i + 1
    /\ UNCHANGED <<asm_queries, asm_pc, yielded>>
    /\ UNCHANGED <<cfg_vars, trn_vars, reg_vars, req_vars, gls_vars, ctl_vars, val_vars>>

\* The loop is over: the last batch joins chunk_queries.
AssembleFlush ==
    /\ asm_pc = "loop"
    /\ asm_i = Len(asm_queries)
    /\ chunk_queries' = FlushedChunks
    /\ asm_pc' = "yield"
    /\ UNCHANGED <<asm_queries, asm_i, batch, current_length, yielded>>
    /\ UNCHANGED <<cfg_vars, trn_vars, reg_vars, req_vars, gls_vars, ctl_vars, val_vars>>

\* yield prompt.lstrip(), len(this_batch)
AssembleYield ==
    /\ asm_pc = "yield"
    /\ Len(yielded) < Len(chunk_queries)
    /\ LET this_batch == chunk_queries[Len(yielded) + 1]
       IN  yielded' = Append(yielded, [prompt |-> Prompt(this_batch),
                                       batch_size |-> Len(this_batch)])
    /\ UNCHANGED <<asm_queries, asm_pc, asm_i, chunk_queries, batch, current_length>>
    /\ UNCHANGED <<cfg_vars, trn_vars, reg_vars, req_vars, gls_vars, ctl_vars, val_vars>>

\* The generator is exhausted.
AssembleReturn ==
    /\ asm_pc = "yield"
    /\ Len(yielded) = Len(chunk_queries)
    /\ asm_pc' = "done"
    /\ UNCHANGED <<asm_queries, asm_i, chunk_queries, batch, current_length, yielded>>
    /\ UNCHANGED <<cfg_vars, trn_vars, reg_vars, req_vars, gls_vars, ctl_vars, val_vars>>

NextAssemble == AssembleLoop \/ AssembleFlush \/ AssembleYield \/ AssembleReturn

SpecAssemble == InitAssemble /\ [][NextAssemble]_vars

OverflowsHalfTheBudget(len, b, q) == len + Cost(q) > MAX_CHAR_PER_PROMPT \div 2 /\ b # <<>>

\* The test of the for loop, on the locals current_length and batch of a
\* call of its own: current_length + len(q) + 10 > MAX_CHAR_PER_PROMPT and batch
Overflows(len, b, q) == len + Cost(q) > MAX_CHAR_PER_PROMPT /\ b # <<>>

\* chunk_queries of a call _assemble_prompts(from_lang, to_lang, qs), given
\* what the for loop holds in chunk_queries, batch and current_length.
RECURSIVE ChunksFrom(_, _, _, _)
ChunksFrom(qs, chunks, b, len) ==
    IF qs = <<>> THEN (IF b # <<>> THEN Append(chunks, b) ELSE chunks)
    ELSE LET q == Head(qs)
         IN  IF Overflows(len, b, q)
             THEN ChunksFrom(Tail(qs), Append(chunks, b), <<q>>, Cost(q))
             ELSE ChunksFrom(Tail(qs), chunks, Append(b, q), len + Cost(q))

ChunksOf(qs) == ChunksFrom(qs, <<>>, <<>>, 0)

\* left_prompt, _ = next(self._assemble_prompts(from_lang, to_lang, left_queries))
FirstPrompt(qs) == Prompt(ChunksOf(qs)[1])

-----------------------------------------------------------------------------
(* _request_with_retry and _ratelimit_sleep.  Time is counted in tenths of *)
(* a second.  A call runs from one await to the next in one step.          *)

\* The configured ceilings: none, and 300 requests per minute.
CEILINGS == {0, 300}

\* delay = 60.0 / self._MAX_REQUESTS_PER_MINUTE, in tenths of a second
Delay == 600 \div max_requests_per_minute

\* random.uniform(0.1, 0.5), in tenths of a second
JITTERS == 1..5

\* await asyncio.sleep(2) after a rate-limit error, in seconds
RATELIMIT_SLEEP == 2

\* await asyncio.sleep(1) after a server error, in seconds
SERVER_ERROR_SLEEP == 1

\* How a dispatched request ends: with a result, by running past _TIMEOUT,
\* or with openai.RateLimitError, another openai.APIError, or another exception.
REQUEST_OUTCOMES == {"ok", "TimedOut", "RateLimited", "ServerError", "Fatal"}

\* The locals of a fresh _request_with_retry call.
NewCall ==
    [ pc                   |-> "start",
      timeout_attempt      |-> 0,
      ratelimit_attempt    |-> 0,
      server_error_attempt |-> 0,
      read_ts              |-> 0,     \* self._last_request_ts as _ratelimit_sleep read it
      wake_at              |-> 0,     \* when its asyncio.sleep is over
      req                  |-> 0,     \* req_task
      backoff              |-> 0,     \* the sleep before the next pass
      raised               |-> "none",
      throttle_calls       |-> 0 ]    \* the _ratelimit_sleep calls it has made

\* What a step leaves behind: the call, the timestamp and the tasks.
Left(call, ts, tsks) == [call |-> call, ts |-> ts, tasks |-> tsks]

\* started = time.time(); req_task = asyncio.create_task(...)
Dispatch(c, call, ts, tsks) ==
    Left([call EXCEPT !.pc = "waiting", !.req = Len(tsks) + 1],
         ts,
         Append(tsks, [call |-> c, dispatched_at |-> now, state |-> "running"]))

RatelimitSleepNeverWaits(c, call, tsks, jitter) ==
    LET called == [call EXCEPT !.throttle_calls = call.throttle_calls + 1]
    IN  IF max_requests_per_minute > 0
        THEN Dispatch(c, [called EXCEPT !.read_ts = last_request_ts], now, tsks)
        ELSE Dispatch(c, called, last_request_ts, tsks)

\* The request is sent again at once, past the top of the loop.
RatelimitSleepSkipped(c, call, tsks, jitter) == Dispatch(c, call, last_request_ts, tsks)

\* The top of "while True": _ratelimit_sleep up to its await, or through it
\* and on to the dispatch of the request.
RatelimitSleep(c, call, tsks, jitter) ==
    LET called == [call EXCEPT !.throttle_calls = call.throttle_calls + 1]
    IN  IF max_requests_per_minute > 0
        THEN LET elapsed == now - last_request_ts
                 total_delay == Delay + jitter
             IN  IF elapsed < total_delay
                 THEN Left([called EXCEPT !.pc = "throttle_sleep",
                                          !.read_ts = last_request_ts,
                                          !.wake_at = now + (total_delay - elapsed)],
                           last_request_ts, tsks)
                 ELSE Dispatch(c, [called EXCEPT !.read_ts = last_request_ts], now, tsks)
        ELSE Dispatch(c, called, last_request_ts, tsks)

\* req_task is done, cancelled, or ended with an exception of kind `how`.
Ended(tsks, r, how) == [tsks EXCEPT ![r].state = how]

RaisedBy(call, kind) == [call EXCEPT !.pc = "raised", !.raised = kind]

TimedOutAbandonsTask(c, call, jitter) ==
    LET n == call.timeout_attempt + 1
    IN  IF n > timeout_retry_attempts
        THEN Left(RaisedBy([call EXCEPT !.timeout_attempt = n], "Timeout"),
                  last_request_ts, req_tasks)
        ELSE RatelimitSleep(c, [call EXCEPT !.timeout_attempt = n], req_tasks, jitter)

\* time.time() - started > self._TIMEOUT while the task is not done
TimedOut(c, call, jitter) ==
    LET n == call.timeout_attempt + 1
    IN  IF n > timeout_retry_attempts
        THEN Left(RaisedBy([call EXCEPT !.timeout_attempt = n], "Timeout"),
                  last_request_ts, req_tasks)
        ELSE RatelimitSleep(c, [call EXCEPT !.timeout_attempt = n],
                            Ended(req_tasks, call.req, "cancelled"), jitter)

RateLimitedNeverGivesUp(c, call) ==
    Left([call EXCEPT !.ratelimit_attempt = call.ratelimit_attempt + 1,
                      !.pc = "backoff", !.backoff = RATELIMIT_SLEEP],
         last_request_ts, Ended(req_tasks, call.req, "RateLimited"))

\* except openai.RateLimitError
RateLimited(c, call) ==
    LET n == call.ratelimit_attempt + 1
    IN  IF n > ratelimit_retry_attempts
        THEN Left(RaisedBy([call EXCEPT !.ratelimit_attempt = n], "RateLimited"),
                  last_request_ts, Ended(req_tasks, call.req, "RateLimited"))
        ELSE Left([call EXCEPT !.ratelimit_attempt = n,
                               !.pc = "backoff", !.backoff = RATELIMIT_SLEEP],
                  last_request_ts, Ended(req_tasks, call.req, "RateLimited"))

ServerErrorGivesUpLate(c, call) ==
    LET n == call.server_error_attempt + 1
    IN  IF n > retry_attempts + 1
        THEN Left(RaisedBy([call EXCEPT !.server_error_attempt = n], "ServerError"),
                  last_request_ts, Ended(req_tasks, call.req, "ServerError"))
        ELSE Left([call EXCEPT !.server_error_attempt = n,
                               !.pc = "backoff", !.backoff = SERVER_ERROR_SLEEP],
                  last_request_ts, Ended(req_tasks, call.req, "ServerError"))

\* except openai.APIError
ServerError(c, call) ==
    LET n == call.server_error_attempt + 1
    IN  IF n > retry_attempts
        THEN Left(RaisedBy([call EXCEPT !.server_error_attempt = n], "ServerError"),
                  last_request_ts, Ended(req_tasks, call.req, "ServerError"))
        ELSE Left([call EXCEPT !.server_error_attempt = n,
                               !.pc = "backoff", !.backoff = SERVER_ERROR_SLEEP],
                  last_request_ts, Ended(req_tasks, call.req, "ServerError"))

FatalIsRetried(c, call) ==
    Left([call EXCEPT !.pc = "backoff", !.backoff = SERVER_ERROR_SLEEP],
         last_request_ts, Ended(req_tasks, call.req, "Fatal"))

\* except Exception: raise
Fatal(c, call) ==
    Left(RaisedBy(call, "Fatal"), last_request_ts, Ended(req_tasks, call.req, "Fatal"))

\* return req_task.result()
Completed(c, call) ==
    Left([call EXCEPT !.pc = "returned"], last_request_ts, Ended(req_tasks, call.req, "done"))

\* The step's effect on the state.
Leaves(c, left) ==
    /\ calls' = [calls EXCEPT ![c] = left.call]
    /\ last_request_ts' = left.ts
    /\ req_tasks' = left.tasks
    /\ UNCHANGED <<max_requests_per_minute, timeout_retry_attempts, ratelimit_retry_attempts, now>>
    /\ UNCHANGED <<cfg_vars, trn_vars, reg_vars, ctl_vars, val_vars, asm_vars, gls_vars>>

\* A call begins: the first pass of "while True".
Begin(c, jitter) ==
    /\ calls[c].pc = "start"
    /\ Leaves(c, RatelimitSleep(c, calls[c], req_tasks, jitter))

\* The asyncio.sleep of _ratelimit_sleep is over: the timestamp is set and
\* the request dispatched.
ThrottleWake(c) ==
    /\ calls[c].pc = "throttle_sleep"
    /\ now >= calls[c].wake_at
    /\ Leaves(c, Dispatch(c, calls[c], now, req_tasks))

\* The wait for req_task ends.
RequestEnds(c, outcome, jitter) ==
    /\ calls[c].pc = "waiting"
    /\ Leaves(c, CASE outcome = "ok" -> Completed(c, calls[c])
                   [] outcome = "TimedOut" -> TimedOut(c, calls[c], jitter)
                   [] outcome = "RateLimited" -> RateLimited(c, calls[c])
                   [] outcome = "ServerError" -> ServerError(c, calls[c])
                   [] OTHER -> Fatal(c, calls[c]))

\* The sleep after a rate-limit or server error is over: the next pass.
BackoffEnds(c, jitter) ==
    /\ calls[c].pc = "backoff"
    /\ Leaves(c, RatelimitSleep(c, [calls[c] EXCEPT !.backoff = 0], req_tasks, jitter))

\* A tenth of a second passes.
Tick ==
    /\ now < MaxTime
    /\ now' = now + 1
    /\ UNCHANGED <<max_requests_per_minute, timeout_retry_attempts, ratelimit_retry_attempts,
                   last_request_ts, calls, req_tasks>>
    /\ UNCHANGED <<cfg_vars, trn_vars, reg_vars, ctl_vars, val_vars, asm_vars, gls_vars>>

\* Calls on one translator, at some time after its last request (or its
\* construction: self._last_request_ts = 0) at time 0.
InitRequest(callers, ceilings, timeout_limits) ==
    /\ max_split_attempts = 0
    /\ fallback_model = ""
    /\ max_tokens = 0
    /\ include_template = FALSE
    /\ IdleController /\ IdleValidate /\ IdleAssemble /\ IdleGlossary /\ IdleTranslation /\ IdleRegistry
    /\ max_requests_per_minute \in ceilings
    /\ timeout_retry_attempts \in timeout_limits
    /\ now = 0
    /\ last_request_ts = 0
    /\ calls = [c \in callers |-> NewCall]
    /\ req_tasks = <<>>

\* One call, whatever its requests end with, with the throttle off as
\* _MAX_REQUESTS_PER_MINUTE = 0 has it: no step of the call waits for the clock.
InitRequests ==
    /\ InitRequest({1}, {0}, 0..MaxTimeoutRetry)
    /\ retry_attempts \in 0..MaxRetry
    /\ ratelimit_retry_attempts \in 0..MaxRatelimitRetry

NextRequests ==
    \E c \in DOMAIN calls, jitter \in JITTERS :
          \/ Begin(c, jitter)
          \/ \E outcome \in REQUEST_OUTCOMES : RequestEnds(c, outcome, jitter)
          \/ BackoffEnds(c, jitter)

SpecRequests == InitRequests /\ [][NextRequests]_vars

\* The event loop resumes a call after every await: a sleep ends, and the loop
\* that polls req_task ends with the task or with the timeout.
SpecRequestsFair == SpecRequests /\ WF_vars(NextRequests)

\* The calls of the two halves of a split batch, run by asyncio.gather.
SIBLINGS == {1, 2}

\* Concurrent calls whose requests end with a result or time out.
InitThrottle ==
    /\ InitRequest(SIBLINGS, CEILINGS, 0..MaxTimeoutRetry)
    /\ retry_attempts = 0
    /\ ratelimit_retry_attempts = 0

NextThrottle ==
    \/ Tick
    \/ \E c \in DOMAIN calls, jitter \in JITTERS :
          \/ Begin(c, jitter)
          \/ ThrottleWake(c)
          \/ \E outcome \in {"ok", "TimedOut"} : RequestEnds(c, outcome, jitter)

SpecThrottle == InitThrottle /\ [][NextThrottle]_vars

-----------------------------------------------------------------------------
(* The glossary: load_glossary and extract_relevant_terms.                 *)
(* A term, a target and a prompt are sequences of one-character tokens;    *)
(* a character outside ASCII is written by its code point.                 *)

\* ord(c), for the characters the glossary model writes:
\* U+30AB katakana KA, U+304B hiragana KA, U+30C3 small katakana TSU,
\* U+30C4 katakana TSU, U+3064 hiragana TSU.
CODE_POINTS ==
    [c \in {"a", "b", "B", "x", "y", ".", "(", ")", " ", "_",
            "U+30AB", "U+304B", "U+30C3", "U+30C4", "U+3064"} |->
        CASE c = "a" -> 97 [] c = "b" -> 98 [] c = "B" -> 66
          [] c = "x" -> 120 [] c = "y" -> 121
          [] c = "." -> 46 [] c = "(" -> 40 [] c = ")" -> 41
          [] c = " " -> 32 [] c = "_" -> 95
          [] c = "U+30AB" -> 12459 [] c = "U+304B" -> 12363
          [] c = "U+30C3" -> 12483 [] c = "U+30C4" -> 12484
          [] c = "U+3064" -> 12388]

Ord(c) == CODE_POINTS[c]

Chr(n) == CHOOSE c \in DOMAIN CODE_POINTS : CODE_POINTS[c] = n

\* the characters [^\w\s] matches
NOT_WORD_NOR_SPACE == {".", "(", ")"}

\* str.lower(), one character
Lower(c) == IF c = "B" THEN "b" ELSE c

\* small_to_normal of normalize_japanese
SmallToNormal(c) == IF c = "U+30C3" THEN "U+30C4" ELSE c

\* One character of normalize_japanese: a katakana (0x30A0..0x30FF) moves
\* down by 0x60 to its hiragana.
NormalizeJapaneseChar(c) ==
    LET n == SmallToNormal(c)
    IN  IF 12448 <= Ord(n) /\ Ord(n) <= 12543 THEN Chr(Ord(n) - 96) ELSE n

normalize_japanese(text) == [i \in 1..Len(text) |-> NormalizeJapaneseChar(text[i])]

normalize_term(term) ==
    normalize_japanese(
        [i \in 1..Len(SelectSeq(term, LAMBDA c : c \notin NOT_WORD_NOR_SPACE)) |->
            Lower(SelectSeq(term, LAMBDA c : c \notin NOT_WORD_NOR_SPACE)[i])])

\* The row current_row of levenshtein_distance, for the character c1 of s1,
\* grown by the inner loop over s2 from the j-th character on.
RECURSIVE LevenshteinRow(_, _, _, _, _)
LevenshteinRow(previous_row, current_row, c1, s2, j) ==
    IF j > Len(s2) THEN current_row
    ELSE LET insertions    == previous_row[j + 1] + 1
             deletions     == current_row[j] + 1
             substitutions == previous_row[j] + (IF c1 # s2[j] THEN 1 ELSE 0)
         IN  LevenshteinRow(previous_row,
                 Append(current_row, Min(insertions, Min(deletions, substitutions))),
                 c1, s2, j + 1)

\* The outer loop over s1, from the i-th character on (len(s1) >= len(s2)).
RECURSIVE LevenshteinRows(_, _, _, _)
LevenshteinRows(previous_row, s1, s2, i) ==
    IF i > Len(s1) THEN previous_row[Len(previous_row)]
    ELSE LevenshteinRows(LevenshteinRow(previous_row, <<i>>, s1[i], s2, 1), s1, s2, i + 1)

levenshtein_distance(s1, s2) ==
    LET long  == IF Len(s1) < Len(s2) THEN s2 ELSE s1
        short == IF Len(s1) < Len(s2) THEN s1 ELSE s2
    IN  IF Len(short) = 0 THEN Len(long)
        ELSE LevenshteinRows([j \in 1..(Len(short) + 1) |-> j - 1], long, short, 1)

japanese_levenshtein_distance(s1, s2) ==
    levenshtein_distance(normalize_japanese(s1), normalize_japanese(s2))

\* term in text
Contains(text, term) ==
    \E i \in 0..(Len(text) - Len(term)) : SubSeq(text, i + 1, i + Len(term)) = term

\* str.replace(old, new), one character for one
Replace(s, old, new) == [i \in 1..Len(s) |-> IF s[i] = old THEN new ELSE s[i]]

\* term.replace(" ", "")
WithoutSpaces(term) == SelectSeq(term, LAMBDA c : c # " ")

\* Does re.compile accept the pattern?  Of the characters written here only
\* the parentheses can make it fail: a ")" that closes nothing, or a "("
\* left open at the end.
RECURSIVE Balanced(_, _)
Balanced(pattern, depth) ==
    IF pattern = <<>> THEN depth = 0
    ELSE IF Head(pattern) = "(" THEN Balanced(Tail(pattern), depth + 1)
    ELSE IF Head(pattern) = ")" THEN depth > 0 /\ Balanced(Tail(pattern), depth - 1)
    ELSE Balanced(Tail(pattern), depth)

Compiles(pattern) == Balanced(pattern, 0)

\* pattern.search(text) of a compiled pattern, under re.IGNORECASE: a group
\* matches what its content matches, "." any character, any other character
\* itself up to case.
Search(pattern, text) ==
    LET atoms == SelectSeq(pattern, LAMBDA c : c \notin {"(", ")"})
    IN  \E i \in 0..(Len(text) - Len(atoms)) :
            \A k \in 1..Len(atoms) :
                atoms[k] = "." \/ Lower(atoms[k]) = Lower(text[i + k])

partial_match(text, term) == Contains(normalize_term(text), normalize_term(term))

\* threshold of is_japanese_similar
JapaneseThreshold(term) ==
    IF Len(normalize_term(term)) <= 2 THEN 0
    ELSE IF Len(normalize_term(term)) <= 4 THEN 1
    ELSE 2

is_japanese_similar(text, term) ==
    japanese_levenshtein_distance(normalize_term(text), normalize_term(term))
        <= JapaneseThreshold(term)

\* threshold of is_general_similar
GeneralThreshold(term) == Max(0, Min(Len(normalize_term(term)) \div 8, 3))

\* window_size of is_general_similar
WindowSize(normalized_term) ==
    IF Len(normalized_term) <= 8 THEN Len(normalized_term)
    ELSE IF Len(normalized_term) <= 16 THEN Len(normalized_term) + 1
    ELSE Len(normalized_term) + 2

is_general_similar(text, term) ==
    LET normalized_text == normalize_term(text)
        normalized_term == normalize_term(term)
        window_size     == WindowSize(normalized_term)
    IN  IF Len(normalized_text) > Len(normalized_term) * 5
        THEN \E i \in 0..(Max(0, Len(normalized_text) - window_size + 1) - 1) :
                levenshtein_distance(
                    SubSeq(normalized_text, i + 1, Min(i + window_size, Len(normalized_text))),
                    normalized_term) <= GeneralThreshold(term)
        ELSE levenshtein_distance(normalized_text, normalized_term) <= GeneralThreshold(term)

\* any(c for c in term if 0x3040 <= ord(c) <= 0x30FF)
HasKana(term) == \E i \in 1..Len(term) : 12352 <= Ord(term[i]) /\ Ord(term[i]) <= 12543

ExactMatchVerbatimOnly(text, term) == Contains(text, term)
ExactMatch(text, term) == Contains(text, term) \/ Contains(text, WithoutSpaces(term))

SimilarMatch(text, term) ==
    IF HasKana(term) THEN is_japanese_similar(text, term) ELSE is_general_similar(text, term)

PartialMatchEitherWay(text, term) ==
    \/ Contains(normalize_term(text), normalize_term(term))
    \/ Contains(normalize_term(term), normalize_term(text))
PartialMatch(text, term) == partial_match(text, term)

\* One turn of the main matching loop: the step that takes the term, "none"
\* when no step does, "re.error" when re.compile raises.
MatchedBy(text, term) ==
    IF ExactMatch(text, term) THEN "exact"
    ELSE IF SimilarMatch(text, term) THEN "similar"
    ELSE IF PartialMatch(text, term) THEN "partial"
    ELSE IF ~Compiles(term) THEN "re.error"
    ELSE IF Search(term, text) THEN "regex"
    ELSE "none"

Relevant(text, term) == MatchedBy(text, term) \in {"exact", "similar", "partial", "regex"}

\* dict[key] = value
Put(dict, key, value) ==
    [k \in DOMAIN dict \cup {key} |-> IF k = key THEN value ELSE dict[k]]

EmptyDict == [k \in {} |-> <<>>]

\* The formats detect_type tells apart.
DICT_TYPES == {"galtransl", "sakura", "mit"}

\* The place of the first token tok in s, 0 when there is none.
FirstIndex(s, tok) ==
    IF \E i \in 1..Len(s) : s[i] = tok
    THEN CHOOSE i \in 1..Len(s) : s[i] = tok /\ \A k \in 1..(i - 1) : s[k] # tok
    ELSE 0

\* str.split(sep, 1)
SplitOnce(s, sep) ==
    IF FirstIndex(s, sep) = 0 THEN <<s>>
    ELSE <<SubSeq(s, 1, FirstIndex(s, sep) - 1), SubSeq(s, FirstIndex(s, sep) + 1, Len(s))>>

\* str.split(None, 1) of a stripped string
SplitWhitespaceOnce(s) ==
    IF \A i \in 1..Len(s) : s[i] \notin WHITESPACE THEN (IF s = <<>> THEN <<>> ELSE <<s>>)
    ELSE LET i == CHOOSE i \in 1..Len(s) :
                      s[i] \in WHITESPACE /\ \A k \in 1..(i - 1) : s[k] \notin WHITESPACE
         IN  <<SubSeq(s, 1, i - 1), LStrip(SubSeq(s, i + 1, Len(s)))>>

\* load_galtransl_dic, from the n-th line on.  A line is split on its tabs;
\* no line written here has four spaces in a row, so a line that does not
\* split in two on tabs is skipped.
RECURSIVE LoadGaltransl(_, _, _)
LoadGaltransl(lines, n, entries) ==
    IF n > Len(lines) THEN entries
    ELSE LET parts == SplitOn(lines[n], {"\t"})
         IN  LoadGaltransl(lines, n + 1,
                 IF Strip(lines[n]) = <<>> \/ Len(parts) # 2 THEN entries
                 ELSE Put(entries, Strip(parts[1]), Strip(parts[2])))

\* load_sakura_dict, from the n-th line on.
RECURSIVE LoadSakura(_, _, _)
LoadSakura(lines, n, entries) ==
    IF n > Len(lines) THEN entries
    ELSE LET line  == Strip(lines[n])
             parts == SplitOnce(line, "->")
         IN  LoadSakura(lines, n + 1,
                 IF line = <<>> \/ Len(parts) # 2 THEN entries
                 ELSE Put(entries, Strip(parts[1]), Strip(parts[2])))

\* The two fields of a line of load_mit_dict, <<>> for a line it skips.
MitParts(line) ==
    IF Len(SplitOnce(line, "\t")) = 1 THEN SplitWhitespaceOnce(line)
    ELSE SplitOnce(line, "\t")

\* load_mit_dict, from the n-th line on: underscores stand for spaces, and a
\* source that does not compile is reported and left out.
RECURSIVE LoadMit(_, _, _)
LoadMit(lines, n, entries) ==
    IF n > Len(lines) THEN entries
    ELSE LET parts == MitParts(Strip(lines[n]))
         IN  LoadMit(lines, n + 1,
                 IF Len(parts) < 2 THEN entries
                 ELSE IF Compiles(Replace(Strip(parts[1]), "_", " "))
                      THEN Put(entries, Replace(Strip(parts[1]), "_", " "),
                                        Replace(Strip(parts[2]), "_", " "))
                      ELSE entries)

\* load_glossary of a file of the given format
Loaded(file) ==
    CASE file.type = "galtransl" -> LoadGaltransl(file.lines, 1, EmptyDict)
      [] file.type = "sakura"    -> LoadSakura(file.lines, 1, EmptyDict)
      [] file.type = "mit"       -> LoadMit(file.lines, 1, EmptyDict)

\* What stands between the source and the target on a line of each format.
SEPARATOR == [galtransl |-> "\t", sakura |-> "->", mit |-> "\t"]

Line(type, src, dst) == src \o <<SEPARATOR[type]>> \o dst

\* The characters of the source fields and of the prompts.
TERM_CHARS == {"a", "B", ".", "(", " ", "_", "U+30AB"}
PROMPT_CHARS == {"a", "b", "U+304B", "U+30C3"}

SHORT_TERMS == { <<c>> : c \in TERM_CHARS }

TERMS ==
    SHORT_TERMS \cup { <<c, d>> : c \in TERM_CHARS, d \in TERM_CHARS }
        \cup { <<"a", ".", "a">>, <<"(", "a", ")">>, <<"a", " ", "a">>,
               <<"U+30AB", "U+30AB", "U+30AB">> }

PROMPTS ==
    { <<>> } \cup { <<c>> : c \in PROMPT_CHARS }
        \cup { <<c, d>> : c \in PROMPT_CHARS, d \in PROMPT_CHARS }
        \cup { <<"a", "b", "a">>, <<"a", "a", "a", "a">> }
        \cup { <<c, d, c, d, c, d>> : c \in {"a", "b"}, d \in PROMPT_CHARS }

\* Glossary files of one line, or of two with a short second source.
DICT_FILES ==
    { [type |-> t, lines |-> <<Line(t, s, <<"x">>)>>] : t \in DICT_TYPES, s \in TERMS }
    \cup
    { [type |-> t, lines |-> <<Line(t, s, <<"x">>), Line(t, u, <<"y">>)>>] :
        t \in DICT_TYPES, s \in TERMS, u \in SHORT_TERMS }

\* __init__: self.glossary_entries = self.load_glossary(self.dict_path)
LoadGlossary(type) ==
    /\ gls_pc = "file"
    /\ dict_file.type = type
    /\ glossary_entries' = Loaded(dict_file)
    /\ gls_pc' = "loaded"
    /\ UNCHANGED <<dict_file, prompt_text, relevant_terms>>
    /\ UNCHANGED <<cfg_vars, trn_vars, reg_vars, req_vars, ctl_vars, val_vars, asm_vars>>

\* A call extract_relevant_terms(text) on the loaded glossary returns the
\* entries its loop took.
ExtractReturns(text) ==
    /\ gls_pc = "loaded"
    /\ \A term \in DOMAIN glossary_entries : MatchedBy(text, term) # "re.error"
    /\ prompt_text' = text
    /\ relevant_terms' = [term \in { t \in DOMAIN glossary_entries : Relevant(text, t) } |->
                              glossary_entries[term]]
    /\ gls_pc' = "extracted"
    /\ UNCHANGED <<dict_file, glossary_entries>>
    /\ UNCHANGED <<cfg_vars, trn_vars, reg_vars, req_vars, ctl_vars, val_vars, asm_vars>>

\* A call extract_relevant_terms(text) on the loaded glossary raises re.error
\* out of re.compile.
ExtractRaises(text) ==
    /\ gls_pc = "loaded"
    /\ \E term \in DOMAIN glossary_entries : MatchedBy(text, term) = "re.error"
    /\ prompt_text' = text
    /\ gls_pc' = "raised"
    /\ UNCHANGED <<dict_file, glossary_entries, relevant_terms>>
    /\ UNCHANGED <<cfg_vars, trn_vars, reg_vars, req_vars, ctl_vars, val_vars, asm_vars>>

InitGlossary ==
    /\ IdleConfig /\ IdleController /\ IdleValidate /\ IdleAssemble /\ IdleRequest
    /\ IdleTranslation /\ IdleRegistry
    /\ dict_file \in DICT_FILES
    /\ glossary_entries = EmptyDict
    /\ gls_pc = "file"
    /\ prompt_text = <<>>
    /\ relevant_terms = EmptyDict

NextGlossary ==
    \/ \E type \in DICT_TYPES : LoadGlossary(type)
    \/ \E text \in PROMPTS : ExtractReturns(text) \/ ExtractRaises(text)

SpecGlossary == InitGlossary /\ [][NextGlossary]_vars

-----------------------------------------------------------------------------
(* _request_translation: the clean-up of the answer and the token counters. *)

THINK_OPEN == "<think>"
THINK_CLOSE == "</think>"

\* The position of the first THINK_CLOSE of s after position from, or 0.
NextClose(s, from) ==
    IF \E j \in (from + 1)..Len(s) : s[j] = THINK_CLOSE
    THEN CHOOSE j \in (from + 1)..Len(s) :
             s[j] = THINK_CLOSE /\ \A h \in (from + 1)..(j - 1) : s[h] # THINK_CLOSE
    ELSE 0

\* re.sub(r'(</think>)?<think>.*?</think>', '', raw_text, flags=re.DOTALL)
RECURSIVE StripThink(_)
StripThink(s) ==
    IF s = <<>> THEN <<>>
    ELSE LET open == IF Len(s) >= 2 /\ s[1] = THINK_CLOSE /\ s[2] = THINK_OPEN THEN 2
                     ELSE IF s[1] = THINK_OPEN THEN 1
                     ELSE 0
             close == IF open = 0 THEN 0 ELSE NextClose(s, open)
         IN  IF close > 0
             THEN StripThink(SubSeq(s, close + 1, Len(s)))
             ELSE <<Head(s)>> \o StripThink(Tail(s))

\* The length of the longest prefix of s made of whitespace.
RECURSIVE WhitespaceRun(_)
WhitespaceRun(s) ==
    IF s # <<>> /\ Head(s) \in WHITESPACE THEN 1 + WhitespaceRun(Tail(s)) ELSE 0

\* re.sub(r'\n\s*\n', '\n', raw_text): from a line break, the greedy \s* runs
\* to the last line break of the whitespace that follows.
RECURSIVE CollapseBlankLines(_)
CollapseBlankLines(s) ==
    IF s = <<>> THEN <<>>
    ELSE IF Head(s) = "\n"
    THEN LET run == WhitespaceRun(Tail(s))
             breaks == {j \in 2..(run + 1) : s[j] = "\n"}
         IN  IF breaks # {}
             THEN LET last == CHOOSE j \in breaks : \A h \in breaks : h <= j
                  IN  <<"\n">> \o CollapseBlankLines(SubSeq(s, last + 1, Len(s)))
             ELSE <<"\n">> \o CollapseBlankLines(Tail(s))
    ELSE <<Head(s)>> \o CollapseBlankLines(Tail(s))

\* str.splitlines(): no line for the empty text, none after a final line break.
Splitlines(text) ==
    LET pieces == SplitLines(text)
    IN  IF text = <<>> THEN <<>>
        ELSE IF pieces[Len(pieces)] = <<>> THEN SubSeq(pieces, 1, Len(pieces) - 1)
        ELSE pieces

\* seq[:stop] of Python, where a negative stop counts from the end.
SliceTo(seq, stop) ==
    IF stop >= 0 THEN SubSeq(seq, 1, Min(stop, Len(seq)))
    ELSE SubSeq(seq, 1, Max(0, Len(seq) + stop))

\* The for loop over the lines.  Lines are counted from 1 here, so 0 stands
\* for the code's -1 and line i for the code's index i - 1.
RECURSIVE ScanMarkers(_, _, _)
ScanMarkers(lines, index, found) ==
    IF index > Len(lines) THEN found
    ELSE IF HasMarker(lines[index])
    THEN LET current_index == FirstMarkerIndex(lines[index])
             min_index_line_index ==
                 IF current_index = 1 THEN index ELSE found.min_index_line_index
             max_index_line_index ==
                 IF \/ found.max_index_line_index = 0
                    \/ current_index > FirstMarkerIndex(lines[found.max_index_line_index])
                 THEN index ELSE found.max_index_line_index
         IN  ScanMarkers(lines, index + 1,
                         [has_numeric_prefix |-> TRUE,
                          min_index_line_index |-> min_index_line_index,
                          max_index_line_index |-> max_index_line_index])
    ELSE ScanMarkers(lines, index + 1, found)

\* cleaned_text after the two substitutions and the strip.
Collapsed(raw_text) == Strip(CollapseBlankLines(StripThink(raw_text)))

\* What the scan finds in the lines of the collapsed text.
Scanned(raw_text) ==
    ScanMarkers(Splitlines(Collapsed(raw_text)), 1,
                [has_numeric_prefix |-> FALSE,
                 min_index_line_index |-> 0,
                 max_index_line_index |-> 0])

\* The text _request_translation returns for the content raw_text.
CleanedText(raw_text) ==
    LET lines == Splitlines(Collapsed(raw_text))
        found == Scanned(raw_text)
        from_min == IF found.min_index_line_index # 0
                    THEN SubSeq(lines, found.min_index_line_index, Len(lines))
                    ELSE <<>>
        modified_lines ==
            IF found.max_index_line_index # 0 /\ from_min # <<>>
            THEN SliceTo(from_min,
                         found.max_index_line_index - found.min_index_line_index + 1)
            ELSE from_min
    IN  IF found.has_numeric_prefix THEN JoinLines(modified_lines) ELSE Collapsed(raw_text)

\* response.usage is missing, or has no total_tokens.
NO_USAGE == -1

\* A response of the endpoint: its choices (message contents, None or a
\* text) and its usage.
Choice(text) == [is_none |-> FALSE, content |-> text]
NoContent == [is_none |-> TRUE, content |-> <<>>]
Response(choices, usage) == [choices |-> choices, usage |-> usage]
NoResponse == Response(<<>>, NO_USAGE)

\* The locals of a fresh _request_translation call.
NewTranslation ==
    [ pc |-> "start",                \* "start", "awaiting", "returned", "raised", "cancelled"
      response |-> NoResponse,
      cleaned_text |-> <<>>,
      raised |-> "none" ]

\* What the call leaves behind: its locals and the two counters.
Counted(call, count, last) == [call |-> call, token_count |-> count, token_count_last |-> last]

CompletesCountsFirst(call, response) ==
    LET count == IF response.usage = NO_USAGE THEN token_count
                 ELSE token_count + response.usage
        last == IF response.usage = NO_USAGE THEN 0 ELSE response.usage
    IN  IF response.choices = <<>>
        THEN Counted([call EXCEPT !.pc = "raised", !.response = response,
                                  !.raised = "ValueError"], count, last)
        ELSE IF response.choices[1].is_none
        THEN Counted([call EXCEPT !.pc = "raised", !.response = response,
                                  !.raised = "TypeError"], count, last)
        ELSE Counted([call EXCEPT !.pc = "returned", !.response = response,
                                  !.cleaned_text = CleanedText(response.choices[1].content)],
                     count, last)

\* The rest of _request_translation once the await has given a response:
\* ValueError without choices, TypeError in re.sub on a content of None,
\* else the clean-up, the token accounting and the return.
Completes(call, response) ==
    IF response.choices = <<>>
    THEN Counted([call EXCEPT !.pc = "raised", !.response = response,
                              !.raised = "ValueError"],
                 token_count, token_count_last)
    ELSE IF response.choices[1].is_none
    THEN Counted([call EXCEPT !.pc = "raised", !.response = response,
                              !.raised = "TypeError"],
                 token_count, token_count_last)
    ELSE Counted([call EXCEPT !.pc = "returned", !.response = response,
                              !.cleaned_text = CleanedText(response.choices[1].content)],
                 IF response.usage = NO_USAGE THEN token_count
                 ELSE token_count + response.usage,
                 IF response.usage = NO_USAGE THEN 0 ELSE response.usage)

TranslationUnchanged ==
    UNCHANGED <<cfg_vars, ctl_vars, val_vars, asm_vars, req_vars, gls_vars, reg_vars>>

\* The call builds its messages and awaits client.chat.completions.create.
RequestBegins(c) ==
    /\ translations[c].pc = "start"
    /\ translations' = [translations EXCEPT ![c].pc = "awaiting"]
    /\ UNCHANGED <<token_count, token_count_last>>
    /\ TranslationUnchanged

\* The await ends with a response.
RequestResponds(c, response) ==
    /\ translations[c].pc = "awaiting"
    /\ LET left == Completes(translations[c], response)
       IN  /\ translations' = [translations EXCEPT ![c] = left.call]
           /\ token_count' = left.token_count
           /\ token_count_last' = left.token_count_last
    /\ TranslationUnchanged

\* The await ends with an exception of the client.
RequestFails(c) ==
    /\ translations[c].pc = "awaiting"
    /\ translations' = [translations EXCEPT ![c].pc = "raised", ![c].raised = "APIError"]
    /\ UNCHANGED <<token_count, token_count_last>>
    /\ TranslationUnchanged

\* req_task.cancel() of _request_with_retry: CancelledError at the await.
RequestCancelled(c) ==
    /\ translations[c].pc = "awaiting"
    /\ translations' = [translations EXCEPT ![c].pc = "cancelled"]
    /\ UNCHANGED <<token_count, token_count_last>>
    /\ TranslationUnchanged

InitTranslation(callers) ==
    /\ IdleConfig /\ IdleController /\ IdleValidate /\ IdleAssemble /\ IdleRequest
    /\ IdleGlossary /\ IdleRegistry
    /\ token_count = 0
    /\ token_count_last = 0
    /\ translations = [c \in callers |-> NewTranslation]

\* The contents of the responses the token accounting is run on.
USAGE_TEXTS == { <<>>, WellFormed(<<1, 2>>), <<"x", "\n">> \o WellFormed(<<1>>) }

USAGES == {NO_USAGE} \cup 0..MaxUsage

RESPONSES ==
    {Response(choices, usage) :
         choices \in {<<>>, <<NoContent>>} \cup {<<Choice(text)>> : text \in USAGE_TEXTS},
         usage \in USAGES}

\* The requests of the two halves of a split batch.
InitTokens == InitTranslation(SIBLINGS)

NextTokens ==
    \E c \in DOMAIN translations :
        \/ RequestBegins(c)
        \/ \E response \in RESPONSES : RequestResponds(c, response)
        \/ RequestFails(c)
        \/ RequestCancelled(c)

SpecTokens == InitTokens /\ [][NextTokens]_vars

\* The lines of the contents the clean-up is run on: commentary, marked
\* lines, a line with two markers, a blank line, and the think tags.
CLEANUP_LINES ==
    { <<"x">>, <<>>, <<" ">>,
      <<Marker(1), "A">>, <<Marker(2), "B">>, <<Marker(3), "C">>,
      <<Marker(2), "B", Marker(1), "A">>,
      <<THINK_OPEN>>, <<THINK_CLOSE>> }

\* The contents of at most MaxLines lines.
RECURSIVE CleanupTextsOf(_)
CleanupTextsOf(n) ==
    IF n = 0 THEN {<<>>}
    ELSE LET shorter == CleanupTextsOf(n - 1)
         IN  shorter \cup {text \o <<"\n">> \o line : text \in shorter, line \in CLEANUP_LINES}
                     \cup CLEANUP_LINES

CLEANUP_TEXTS == CleanupTextsOf(MaxLines)

\* One request whose response holds any of the contents, with or without usage.
InitCleanUp == InitTranslation({1})

NextCleanUp ==
    \E c \in DOMAIN translations :
        \/ RequestBegins(c)
        \/ \E text \in CLEANUP_TEXTS, usage \in {NO_USAGE, MaxUsage} :
               RequestResponds(c, Response(<<Choice(text)>>, usage))

SpecCleanUp == InitCleanUp /\ [][NextCleanUp]_vars

\* A request task that _request_with_retry left running when it raised goes
\* on in the event loop: its await ends with a response and the rest of
\* _request_translation runs, the token accounting included.
AbandonedCompletes(r, response) ==
    /\ req_tasks[r].state = "running"
    /\ calls[req_tasks[r].call].pc \in {"returned", "raised"}
    /\ LET left == Completes([NewTranslation EXCEPT !.pc = "awaiting"], response)
       IN  /\ token_count' = left.token_count
           /\ token_count_last' = left.token_count_last
           /\ req_tasks' = Ended(req_tasks, r, IF left.call.pc = "returned" THEN "done"
                                                                           ELSE "Fatal")
    /\ UNCHANGED <<max_requests_per_minute, timeout_retry_attempts, ratelimit_retry_attempts,
                   now, last_request_ts, calls, translations>>
    /\ UNCHANGED <<cfg_vars, ctl_vars, val_vars, asm_vars, gls_vars, reg_vars>>

\* One call of _request_with_retry and the request tasks it made, to their end.
NextInFlight ==
    \/ NextRequests
    \/ \E r \in DOMAIN req_tasks, response \in RESPONSES : AbandonedCompletes(r, response)

SpecInFlight == InitRequests /\ [][NextInFlight]_vars

-----------------------------------------------------------------------------
(* translators/__init__.py: get_translator and unload.  An instance is     *)
(* named by its place in the order of construction.                        *)

\* Keys of the TRANSLATORS dictionary.
TRANSLATORS == {"chatgpt", "sakura"}

\* The keys callers pass: those of the registry and one outside it.
TRANSLATOR_KEYS == TRANSLATORS \cup {"unknown"}

\* The constructor arguments callers pass.
CONSTRUCTOR_ARGS == {"args1", "args2"}

CacheNeverHit(key) == FALSE

\* translator_cache.get(key) is truthy: no translator class defines
\* __bool__ or __len__, so every cached instance is.
CacheHit(key) == key \in DOMAIN translator_cache

\* translator_cache.pop(key, None)
Popped(key) == [k \in DOMAIN translator_cache \ {key} |-> translator_cache[k]]

EndOfCall(op, key, args, raised, result) ==
    [n |-> last_call.n + 1, op |-> op, key |-> key, args |-> args,
     raised |-> raised, result |-> result]

\* get_translator(key, *args, **kwargs); the constructor of the translator
\* class returns an instance (built) or raises.
GetTranslator(key, args, built) ==
    /\ last_call.n < MaxRegistryCalls
    /\ IF key \notin TRANSLATORS
       THEN /\ last_call' = EndOfCall("get_translator", key, args, TRUE, 0)
            /\ UNCHANGED <<translator_cache, instances>>
       ELSE IF ~CacheHit(key)
       THEN IF built
            THEN /\ Len(instances) < MaxInstances
                 /\ instances' = Append(instances, [key |-> key, args |-> args])
                 /\ translator_cache' =
                        [k \in DOMAIN translator_cache \cup {key} |->
                            IF k = key THEN Len(instances) + 1 ELSE translator_cache[k]]
                 /\ last_call' = EndOfCall("get_translator", key, args, FALSE,
                                           translator_cache'[key])
            ELSE /\ last_call' = EndOfCall("get_translator", key, args, TRUE, 0)
                 /\ UNCHANGED <<translator_cache, instances>>
       ELSE /\ last_call' = EndOfCall("get_translator", key, args, FALSE, translator_cache[key])
            /\ UNCHANGED <<translator_cache, instances>>
    /\ UNCHANGED <<cfg_vars, ctl_vars, val_vars, asm_vars, req_vars, gls_vars, trn_vars>>

\* unload(key)
Unload(key) ==
    /\ last_call.n < MaxRegistryCalls
    /\ translator_cache' = Popped(key)
    /\ last_call' = EndOfCall("unload", key, "", FALSE, 0)
    /\ UNCHANGED instances
    /\ UNCHANGED <<cfg_vars, ctl_vars, val_vars, asm_vars, req_vars, gls_vars, trn_vars>>

InitRegistry ==
    /\ IdleConfig /\ IdleController /\ IdleValidate /\ IdleAssemble /\ IdleRequest
    /\ IdleGlossary /\ IdleTranslation /\ IdleRegistry

NextRegistry ==
    \/ \E key \in TRANSLATOR_KEYS, args \in CONSTRUCTOR_ARGS, built \in BOOLEAN :
           GetTranslator(key, args, built)
    \/ \E key \in TRANSLATOR_KEYS : Unload(key)

SpecRegistry == InitRegistry /\ [][NextRegistry]_vars

-----------------------------------------------------------------------------
(* Properties of _translate_batch.                                         *)

Root == tasks[1]

RECURSIVE Pow2(_)
Pow2(k) == IF k = 0 THEN 1 ELSE 2 * Pow2(k - 1)

\* C1: with a stub whose every answer fails validation and no fallback
\* model, _translate_batch on a batch of n >= 1 queries ends, whatever the
\* split depth limit, and returns success = False with every position
\* holding its source text.
C1_AllFailEndsWithSources ==
    <>(Root.pc = "done" /\ ~Root.success /\ Root.partial_results = queries)

\* C1 witness: a batch of 4 with depth limit 2 went through its 7 invocations.
C1_Witness ==
    /\ Len(queries) = 4 /\ max_split_attempts = 2 /\ fallback_model = ""
    /\ n_invocations = 7
    /\ Root.pc = "done" /\ ~Root.success /\ Root.partial_results = queries

\* C2: against the always-malformed stub the primary requests number at most
\* (retry limit + 1) per invocation, and the invocations at most
\* 2^(D+1) - 1: at most (retry limit + 1) * 7 for depth limit 2.
C2_PrimaryAttemptsBounded ==
    /\ n_primary <= (retry_attempts + 1) * n_invocations
    /\ n_invocations <= Pow2(max_split_attempts + 1) - 1
    /\ n_primary <= (retry_attempts + 1) * (Pow2(max_split_attempts + 1) - 1)

\* C2 witness: batch 4, depth limit 2, retry limit 1: the bound 2 * 7 is met.
C2_Witness ==
    /\ Len(queries) = 4 /\ max_split_attempts = 2 /\ retry_attempts = 1
    /\ Root.pc = "done"
    /\ n_invocations = 7
    /\ n_primary = 14

NothingSucceeded(t) == \A i \in DOMAIN t.filled : t.filled[i] = "source"

\* C3: no exception raised by a request, in the attempt loop, on its last
\* pass or inside the fallback, leaves _translate_batch; and a call in which
\* nothing succeeded returns success = False with the source texts.
C3_NoExceptionLeaves ==
    /\ \A id \in DOMAIN tasks : tasks[id].pc # "raised"
    /\ (Root.pc = "done" /\ queries # <<>> /\ NothingSucceeded(Root))
           => (~Root.success /\ Root.partial_results = queries)

\* C3 witness: the last primary attempt raised (the fallback runs from the
\* except branch) and two fallback tries have failed.
C3_Witness ==
    \E id \in DOMAIN tasks :
        /\ tasks[id].pc = "fallback"
        /\ tasks[id].fb_site = "except"
        /\ tasks[id].fb_attempt = FALLBACK_MAX_ATTEMPTS

C8_TerminalReturnsSources ==
    \A id \in DOMAIN tasks :
        (tasks[id].pc = "done" /\ tasks[id].path = "terminal") =>
            /\ ~tasks[id].success
            /\ tasks[id].partial_results = tasks[id].batch_queries
            /\ ~CanSplit(tasks[id])

\* C8 witness: both terminal cases: a single query, and a larger batch at
\* the depth limit, after the fallback was tried.
C8_Witness ==
    /\ fallback_model # ""
    /\ \E id \in DOMAIN tasks :
          /\ tasks[id].pc = "done" /\ tasks[id].path = "terminal"
          /\ Len(tasks[id].batch_queries) > 1
          /\ tasks[id].split_level >= max_split_attempts
    /\ \E id \in DOMAIN tasks :
          /\ tasks[id].pc = "done" /\ tasks[id].path = "terminal"
          /\ Len(tasks[id].batch_queries) = 1

SourceFilled(t) == {i \in DOMAIN t.filled : t.filled[i] \in {"source", "fallback_source"}}

\* C9 as claimed: a call that returns success = True holds no position that
\* the controller filled with the source text.
C9_Original ==
    \A id \in DOMAIN tasks :
        (tasks[id].pc = "done" /\ tasks[id].success) => SourceFilled(tasks[id]) = {}

\* C9 amended: in a call that returns success = True, the only positions the
\* controller filled with the source text are those an accepted fallback
\* answer left empty; the terminal fill is never part of a success.
C9_SuccessHoldsNoTerminalFill ==
    \A id \in DOMAIN tasks :
        (tasks[id].pc = "done" /\ tasks[id].success) =>
            \A i \in DOMAIN tasks[id].filled :
                /\ tasks[id].filled[i] \in {"model", "fallback_source"}
                /\ tasks[id].filled[i] = "fallback_source" =>
                       tasks[id].partial_results[i] = tasks[id].batch_queries[i]
                /\ tasks[id].filled[i] = "fallback_source" => fallback_model # ""

\* C9 witness: a successful call one of whose positions holds the source
\* text put there by the fallback.
C9_Witness ==
    /\ Root.pc = "done" /\ Root.success
    /\ \E i \in DOMAIN Root.filled :
          Root.filled[i] = "fallback_source" /\ Root.partial_results[i] = queries[i]

-----------------------------------------------------------------------------
(* Properties of the validation of one response.                           *)

\* How often a token stands in a text.
Occurrences(tok, text) == Cardinality({i \in DOMAIN text : text[i] = tok})

\* The marker indices a text carries.
MarkerIndices(text) == {MarkerIndex(text[i]) : i \in {j \in DOMAIN text : IsMarker(text[j])}}

\* C5: a well-formed response that carries the markers 1..N once each, its
\* lines in any order, passes validation, and item i of the list returned is
\* the segment that followed marker i.
C5_Original ==
    (/\ attempt_result.done
     /\ \E p \in Orders(Len(batch_queries)) : response_text = WellFormed(p))
        => /\ attempt_result.ok
           /\ Len(attempt_result.new_translations) = Len(batch_queries)
           /\ \A i \in DOMAIN batch_queries :
                  attempt_result.new_translations[i] = Segment(i)

\* C6: a response in which some marker stands twice fails validation,
\* wherever the second one stands and whatever else the response holds.
C6_Original ==
    (/\ attempt_result.done
     /\ \E k \in DOMAIN MARKERS : Occurrences(Marker(k), response_text) >= 2)
        => ~attempt_result.ok

\* C7: a response that lacks one of the markers 1..N fails validation against
\* a batch of size N, and so does a response that carries a marker index
\* outside 1..N.
C7_Original ==
    (/\ attempt_result.done
     /\ \/ \E k \in 1..Len(batch_queries) : k \notin MarkerIndices(response_text)
        \/ \E k \in MarkerIndices(response_text) : k \notin 1..Len(batch_queries))
        => ~attempt_result.ok

-----------------------------------------------------------------------------
(* Properties of _assemble_prompts.                                        *)

\* The batch sizes yielded so far.
YieldedSizes == [k \in DOMAIN yielded |-> yielded[k].batch_size]

RECURSIVE SumTo(_, _)
SumTo(sizes, k) == IF k = 0 THEN 0 ELSE sizes[k] + SumTo(sizes, k - 1)

\* The k-th group, cut as _translate cuts it:
\* queries[idx_offset : idx_offset + batch_size].
Group(k) ==
    SubSeq(asm_queries, SumTo(YieldedSizes, k - 1) + 1, SumTo(YieldedSizes, k))

\* C10: the batch sizes the assembler yields cut the query list into
\* consecutive groups: the groups in order make up the list, none is empty
\* (an empty list yields none), and each is the chunk its prompt was built of.
C10_GroupsPartitionQueries ==
    asm_pc = "done" =>
        /\ Flatten([k \in DOMAIN yielded |-> Group(k)]) = asm_queries
        /\ SumTo(YieldedSizes, Len(yielded)) = Len(asm_queries)
        /\ \A k \in DOMAIN yielded : YieldedSizes[k] > 0
        /\ \A k \in DOMAIN yielded : Group(k) = chunk_queries[k]
        /\ asm_queries = <<>> => yielded = <<>>

\* C10 witness: four queries were cut into several groups, one of them of
\* more than one query.
C10_Witness ==
    /\ asm_pc = "done"
    /\ Len(asm_queries) = 4
    /\ Len(yielded) >= 2
    /\ \E k \in DOMAIN yielded : YieldedSizes[k] >= 2

\* The markers of a text, in the order they stand in it.
MarkersOf(text) == SelectSeq(text, IsMarker)

\* What stands before the first marker of a prompt.
PromptHead == IF include_template THEN PROMPT_TEMPLATE \o <<"\n">> ELSE <<>>

RECURSIVE TotalCost(_)
TotalCost(qs) == IF qs = <<>> THEN 0 ELSE Cost(Head(qs)) + TotalCost(Tail(qs))

\* C11: the prompt yielded for a group of N queries holds the markers
\* <|1|> .. <|N|> once each and in order, each at the start of a line and
\* followed at once by the query of its position; queries that fit one
\* budget together make exactly one prompt.
C11_PromptHoldsMarkeredQueries ==
    /\ \A k \in DOMAIN yielded :
          LET prompt == yielded[k].prompt
              N == yielded[k].batch_size
              pieces == SplitOn(prompt, MarkerTokens)
          IN  /\ MarkersOf(prompt) = [i \in 1..N |-> Marker(i)]
              /\ Len(pieces) = N + 1
              /\ pieces[1] = PromptHead
              /\ \A i \in 1..N :
                    pieces[i + 1] = IF i < N THEN chunk_queries[k][i] \o <<"\n">>
                                             ELSE chunk_queries[k][i]
              /\ \A j \in DOMAIN prompt :
                    IsMarker(prompt[j]) => (j = 1 \/ prompt[j - 1] = "\n")
    /\ (asm_pc = "done" /\ asm_queries # <<>> /\ TotalCost(asm_queries) <= MAX_CHAR_PER_PROMPT)
           => (Len(yielded) = 1 /\ yielded[1].batch_size = Len(asm_queries))

\* C11 witness: three queries that fit one budget made one prompt of three
\* markered lines, after the template.
C11_Witness ==
    /\ asm_pc = "done"
    /\ include_template
    /\ Len(asm_queries) = 3
    /\ Len(yielded) = 1
    /\ yielded[1].batch_size = 3
    /\ MarkersOf(yielded[1].prompt) = <<"<|1|>", "<|2|>", "<|3|>">>

-----------------------------------------------------------------------------
(* Properties of _ratelimit_sleep and _request_with_retry.                 *)

\* In this step _ratelimit_sleep returns to call c, which dispatches a request.
ThrottleReturns(c) == calls'[c].pc = "waiting" /\ calls'[c].req # calls[c].req

\* C12: with a ceiling above 0, _ratelimit_sleep returns only when at least
\* 60/ceiling seconds have passed since the timestamp it read, and leaves
\* the timestamp at the current time; with ceiling 0 it never sleeps and
\* leaves the timestamp alone.
C12_ThrottleWaitsAndStamps ==
    [][\A c \in DOMAIN calls :
          /\ ThrottleReturns(c) =>
                IF max_requests_per_minute > 0
                THEN /\ now' - calls'[c].read_ts >= Delay
                     /\ last_request_ts' = now'
                ELSE /\ last_request_ts' = last_request_ts
                     /\ calls[c].pc # "throttle_sleep"
          /\ max_requests_per_minute = 0 => calls'[c].pc # "throttle_sleep"]_vars

\* C12 witness: the second call read the timestamp the first one set, slept,
\* and dispatched its request a full interval later.
C12_Witness ==
    /\ max_requests_per_minute > 0
    /\ Len(req_tasks) = 2
    /\ req_tasks[1].dispatched_at > 0
    /\ \E c \in DOMAIN calls :
          /\ calls[c].req = 2
          /\ calls[c].read_ts = req_tasks[1].dispatched_at
          /\ req_tasks[2].dispatched_at >= calls[c].read_ts + Delay
          /\ last_request_ts = req_tasks[2].dispatched_at

\* C13: with a ceiling above 0, any two requests are dispatched at least
\* 60/ceiling seconds apart, however the concurrent calls interleave.
C13_Original ==
    max_requests_per_minute > 0 =>
        \A i, j \in DOMAIN req_tasks :
            i < j => req_tasks[j].dispatched_at - req_tasks[i].dispatched_at >= Delay

\* The tasks call c made that were neither cancelled nor ended.
Outstanding(c) == {r \in DOMAIN req_tasks : req_tasks[r].call = c /\ req_tasks[r].state = "running"}

TasksOf(c) == {r \in DOMAIN req_tasks : req_tasks[r].call = c}

\* C14: a request that ran past the timeout is cancelled before the call
\* dispatches its next one, so a call never has two requests outstanding;
\* after a timeout the call retries up to _TIMEOUT_RETRY_ATTEMPTS times and
\* then raises the timeout error: limit + 1 dispatches when every request
\* timed out.
C14_TimeoutCancelsThenRetries ==
    \A c \in DOMAIN calls :
        /\ Cardinality(Outstanding(c)) <= 1
        /\ \A r \in Outstanding(c) : r = calls[c].req
        /\ calls[c].pc # "raised" => calls[c].timeout_attempt <= timeout_retry_attempts
        /\ calls[c].timeout_attempt =
               Cardinality({r \in TasksOf(c) : req_tasks[r].state = "cancelled"})
               + (IF calls[c].raised = "Timeout" THEN 1 ELSE 0)
        /\ calls[c].raised = "Timeout" =>
               /\ calls[c].timeout_attempt = timeout_retry_attempts + 1
               /\ (calls[c].ratelimit_attempt = 0 /\ calls[c].server_error_attempt = 0)
                      => Cardinality(TasksOf(c)) = timeout_retry_attempts + 1

\* C14 witness: every request timed out; with a retry limit of 1 the first
\* was cancelled, a second dispatched, and the call raised the timeout error.
C14_Witness ==
    /\ timeout_retry_attempts = 1
    /\ calls[1].raised = "Timeout"
    /\ calls[1].ratelimit_attempt = 0 /\ calls[1].server_error_attempt = 0
    /\ Len(req_tasks) = 2
    /\ req_tasks[1].state = "cancelled"

\* In this step the task call c waits for ends with the exception `kind`.
TaskRaises(c, kind) ==
    /\ calls[c].pc = "waiting"
    /\ req_tasks[calls[c].req].state = "running"
    /\ req_tasks'[calls[c].req].state = kind

\* C15: a rate-limit error is retried after a fixed sleep while the rate-limit
\* counter is within _RATELIMIT_RETRY_ATTEMPTS and raised again once it is
\* above; a server error likewise against _RETRY_ATTEMPTS; each error moves
\* its own counter only.
C15_ErrorCountersIndependent ==
    [][\A c \in DOMAIN calls :
          /\ TaskRaises(c, "RateLimited") =>
                /\ calls'[c].ratelimit_attempt = calls[c].ratelimit_attempt + 1
                /\ calls'[c].server_error_attempt = calls[c].server_error_attempt
                /\ calls'[c].timeout_attempt = calls[c].timeout_attempt
                /\ IF calls[c].ratelimit_attempt < ratelimit_retry_attempts
                   THEN calls'[c].pc = "backoff" /\ calls'[c].backoff = RATELIMIT_SLEEP
                   ELSE calls'[c].pc = "raised" /\ calls'[c].raised = "RateLimited"
          /\ TaskRaises(c, "ServerError") =>
                /\ calls'[c].server_error_attempt = calls[c].server_error_attempt + 1
                /\ calls'[c].ratelimit_attempt = calls[c].ratelimit_attempt
                /\ calls'[c].timeout_attempt = calls[c].timeout_attempt
                /\ IF calls[c].server_error_attempt < retry_attempts
                   THEN calls'[c].pc = "backoff" /\ calls'[c].backoff = SERVER_ERROR_SLEEP
                   ELSE calls'[c].pc = "raised" /\ calls'[c].raised = "ServerError"
          /\ ~TaskRaises(c, "RateLimited") =>
                calls'[c].ratelimit_attempt = calls[c].ratelimit_attempt
          /\ ~TaskRaises(c, "ServerError") =>
                calls'[c].server_error_attempt = calls[c].server_error_attempt]_vars

\* C15 witness: the call raised its second rate-limit error (limit 1) after
\* one server error and one timeout were retried.
C15_Witness ==
    /\ ratelimit_retry_attempts = 1
    /\ calls[1].raised = "RateLimited"
    /\ calls[1].ratelimit_attempt = 2
    /\ calls[1].server_error_attempt = 1
    /\ calls[1].timeout_attempt = 1
    /\ Len(req_tasks) = 4

\* C16: an exception that is neither a timeout, a rate-limit error nor a
\* server error leaves the call at once: no counter moves, no request is
\* dispatched in that step or later by that call.
C16_OtherExceptionPropagates ==
    [][\A c \in DOMAIN calls :
          /\ TaskRaises(c, "Fatal") =>
                /\ calls'[c].pc = "raised" /\ calls'[c].raised = "Fatal"
                /\ calls'[c].timeout_attempt = calls[c].timeout_attempt
                /\ calls'[c].ratelimit_attempt = calls[c].ratelimit_attempt
                /\ calls'[c].server_error_attempt = calls[c].server_error_attempt
                /\ Len(req_tasks') = Len(req_tasks)
          /\ calls[c].pc = "raised" =>
                /\ calls'[c] = calls[c]
                /\ TasksOf(c)' = TasksOf(c)]_vars

\* C16 witness: after a retried server error the second request ended with
\* another exception and the call raised it.
C16_Witness ==
    /\ calls[1].raised = "Fatal"
    /\ calls[1].server_error_attempt = 1
    /\ Len(req_tasks) = 2
    /\ req_tasks[2].state = "Fatal"

-----------------------------------------------------------------------------
(* Properties of the fallback's check of one response.                     *)

\* The pieces of the response between its markers, stripped, without a
\* leading empty piece.
SegmentsOf(text) ==
    LET pieces == StripAll(SplitOn(text, MarkerTokens))
    IN  IF pieces # <<>> /\ pieces[1] = <<>> THEN Tail(pieces) ELSE pieces

\* C17: a fallback response is accepted only if it holds as many segments as
\* the batch has queries and one of them is non-empty and differs from its
\* source; the accepted result holds the source text wherever the segment is
\* empty and the segment elsewhere, so no position is blank whose source is
\* not.
C17_FallbackAcceptance ==
    LET segs == SegmentsOf(response_text)
        result == attempt_result.new_translations
        counted == Len(segs) = Len(batch_queries)
        translated(i) == segs[i] # <<>> /\ segs[i] # Strip(batch_queries[i])
    IN  attempt_result.done =>
          /\ attempt_result.ok <=>
                 (counted /\ \E i \in DOMAIN segs : translated(i))
          /\ attempt_result.ok =>
                /\ \E i \in DOMAIN segs : segs[i] # <<>> /\ segs[i] # batch_queries[i]
                /\ Len(result) = Len(batch_queries)
                /\ \A i \in DOMAIN result :
                      /\ result[i] = IF segs[i] = <<>> THEN batch_queries[i] ELSE segs[i]
                      /\ Strip(batch_queries[i]) # <<>> => Strip(result[i]) # <<>>

\* C17 witness: of two segments the first is a translation and the second is
\* empty; the answer was accepted with the second position's source text.
C17_Witness ==
    /\ attempt_result.done /\ attempt_result.ok
    /\ batch_queries = << <<"a">>, <<"a">> >>
    /\ response_text = <<"<|1|>", "A", "\n", "<|2|>">>
    /\ attempt_result.new_translations = << <<"A">>, <<"a">> >>

-----------------------------------------------------------------------------
(* Properties of the glossary.                                             *)

\* The substrings of a text, the empty one included.
Substrings(text) ==
    { SubSeq(text, i, j) : i \in 1..(Len(text) + 1), j \in 0..Len(text) }

\* The threshold of the similarity step the term goes through.
Threshold(term) ==
    IF HasKana(term) THEN JapaneseThreshold(term) ELSE GeneralThreshold(term)

\* The normalized term is further than its threshold from every substring of
\* the normalized text.
FarFromEverySubstring(text, term) ==
    \A sub \in Substrings(normalize_term(text)) :
        levenshtein_distance(sub, normalize_term(term)) > Threshold(term)

\* C18, as stated: an entry whose normalized source term is further than its
\* threshold from every substring of the normalized prompt, and which does not
\* occur verbatim in the prompt, is not returned by extract_relevant_terms.
C18_Original ==
    gls_pc = "extracted" =>
        \A term \in DOMAIN glossary_entries :
            (~Contains(prompt_text, term) /\ FarFromEverySubstring(prompt_text, term))
                => term \notin DOMAIN relevant_terms

\* C18, amended: such an entry is not returned when, besides, it does not
\* occur in the prompt with its spaces removed and its raw pattern, searched
\* case-insensitively as a regular expression, does not match the prompt.
C18_FarEntryNotReturned ==
    gls_pc = "extracted" =>
        \A term \in DOMAIN glossary_entries :
            (/\ ~Contains(prompt_text, term)
             /\ ~Contains(prompt_text, WithoutSpaces(term))
             /\ ~Search(term, prompt_text)
             /\ FarFromEverySubstring(prompt_text, term))
                => term \notin DOMAIN relevant_terms

C18_Witness ==
    /\ gls_pc = "extracted"
    /\ relevant_terms # EmptyDict
    /\ \E term \in DOMAIN glossary_entries :
          /\ ~ExactMatch(prompt_text, term)
          /\ ~Search(term, prompt_text)
          /\ FarFromEverySubstring(prompt_text, term)
          /\ term \notin DOMAIN relevant_terms

\* C19: when extract_relevant_terms returns, every entry whose source term
\* occurs in the prompt, verbatim or with its spaces removed, is in the result
\* with its target text; every key of the result is a key of the glossary; and
\* the glossary is what was loaded.
C19_ExactEntryReturned ==
    gls_pc = "extracted" =>
        /\ \A term \in DOMAIN glossary_entries :
              (Contains(prompt_text, term) \/ Contains(prompt_text, WithoutSpaces(term)))
                  => /\ term \in DOMAIN relevant_terms
                     /\ relevant_terms[term] = glossary_entries[term]
        /\ DOMAIN relevant_terms \subseteq DOMAIN glossary_entries
        /\ glossary_entries = Loaded(dict_file)

C19_Witness ==
    /\ gls_pc = "extracted"
    /\ \E term \in DOMAIN relevant_terms :
          /\ ~Contains(prompt_text, term)
          /\ Contains(prompt_text, WithoutSpaces(term))
          /\ relevant_terms[term] = <<"x">>
    /\ DOMAIN relevant_terms # DOMAIN glossary_entries

\* C20, as stated: every source term of the loaded glossary compiles as a
\* pattern, whatever the format of the file, and extract_relevant_terms never
\* raises on an entry.
C20_Original ==
    /\ gls_pc \in {"loaded", "extracted", "raised"} =>
          \A term \in DOMAIN glossary_entries : Compiles(term)
    /\ gls_pc # "raised"

-----------------------------------------------------------------------------
(* Properties of the controller's states.                                  *)

\* The invocations that live through the step.
Staying == DOMAIN tasks \cap DOMAIN tasks'

\* The invocation gives up in this step: it starts its two halves or returns
\* the source texts.
GivesUp(id) ==
    /\ tasks[id].pc \in {"attempting", "fallback"}
    /\ tasks'[id].pc = "splitting" \/ (tasks'[id].pc = "done" /\ tasks'[id].path = "terminal")

\* C21: an invocation goes from its attempts to the fallback, and from there
\* to the split or the terminal failure, never back: it enters the fallback
\* only when the last of its max(1, _RETRY_ATTEMPTS + 1) attempts has failed,
\* by validation or by an exception alike, and it splits or fails terminally
\* only when all attempts have failed and either no fallback model is
\* configured or the last fallback try has failed.
C21_StatesInOrder ==
    [][\A id \in Staying :
          /\ (tasks[id].pc = "attempting" /\ tasks'[id].pc = "fallback") =>
                 /\ tasks[id].attempt = MaxAttempts - 1
                 /\ fallback_model # ""
          /\ GivesUp(id) =>
                 /\ tasks[id].attempt = MaxAttempts - 1
                 /\ \/ fallback_model = "" /\ tasks[id].pc = "attempting"
                    \/ /\ fallback_model # "" /\ tasks[id].pc = "fallback"
                       /\ tasks[id].fb_attempt = FALLBACK_MAX_ATTEMPTS
          /\ tasks[id].pc = "fallback" => tasks'[id].pc # "attempting"
          /\ tasks[id].pc \in {"splitting", "sequential_left", "sequential_right"} =>
                 tasks'[id].pc \notin {"attempting", "fallback"}
          /\ tasks[id].pc = "done" => tasks'[id] = tasks[id]]_vars

\* C21 witness: with one retry and a fallback model, an invocation has split
\* while one of its halves is in the fallback after an attempt that raised.
C21_Witness ==
    /\ retry_attempts = 1 /\ fallback_model # ""
    /\ Root.pc = "splitting"
    /\ \E id \in DOMAIN tasks : tasks[id].pc = "fallback" /\ tasks[id].fb_site = "except"

\* C22: every request in flight in the fallback is sent with the configured
\* fallback model, and every request of the attempt loop with the primary one.
C22_Original ==
    \A id \in DOMAIN tasks :
        /\ tasks[id].pc = "fallback" => tasks[id].model = fallback_model
        /\ tasks[id].pc = "attempting" => tasks[id].model = OPENAI_MODEL

\* C23: until it splits or fails terminally, one invocation sends at most
\* three requests to the fallback model.
C23_Original ==
    Root.pc \in {"attempting", "fallback"} => n_fallback <= FALLBACK_MAX_ATTEMPTS + 1

\* C27: no step of _translate_batch, of its fallback or of its halves writes
\* the model identifier.
C27_Original == [][keys_openai_model' = keys_openai_model]_vars

\* Once every invocation has returned, the model identifier is the one that
\* was configured.
KeysRestoredAtEnd == Root.pc = "done" => keys_openai_model = OPENAI_MODEL

\* C24: when a fallback request returns an answer the fallback accepts, the
\* invocation returns at once with success and the fallback's result list,
\* without a split and without a change to any other invocation, and a
\* returned invocation does nothing more; with no fallback model configured
\* no invocation ever waits for a fallback request.
C24_FallbackSuccessEnds ==
    /\ [][\A id \in Staying :
            \A text \in StubTexts(tasks[id].batch_queries) :
                (/\ FallbackAccepts(text, tasks[id].batch_queries)
                 /\ AttemptFallback(id, Returned(text))) =>
                    /\ DOMAIN tasks' = DOMAIN tasks
                    /\ \A other \in DOMAIN tasks \ {id} : tasks'[other] = tasks[other]
                    /\ tasks'[id].pc = "done"
                    /\ tasks'[id].success
                    /\ tasks'[id].partial_results =
                           ResultList(FbTranslations(text), tasks[id].batch_queries)]_vars
    /\ [][\A id \in Staying : tasks[id].pc = "done" => tasks'[id] = tasks[id]]_vars
    /\ [](fallback_model = "" => \A id \in DOMAIN tasks : tasks[id].pc # "fallback")

\* C24 witness: the root invocation has returned the result of its fallback,
\* one position of which the fallback filled with the source text.
C24_Witness ==
    /\ Root.pc = "done" /\ Root.path = "fallback" /\ Root.success
    /\ Len(Root.batch_queries) > 1
    /\ \E i \in DOMAIN Root.filled : Root.filled[i] = "fallback_source"

\* The invocation whose split made invocation id.
Parent(id) == id \div 2

StrictlyIncreasing(seq) == \A i, j \in DOMAIN seq : i < j => seq[i] < seq[j]

\* C25: an invocation waits for its halves only if its split level is below
\* _MAX_SPLIT_ATTEMPTS and its batch has more than one query; its left half
\* runs on the first floor(n/2) queries and its right half on the rest, each
\* non-empty, over disjoint positions in increasing order, one level deeper;
\* no invocation has a level above _MAX_SPLIT_ATTEMPTS, and none that has not
\* returned has an empty batch.
C25_SplitShape ==
    \A id \in DOMAIN tasks :
        LET t == tasks[id]
            n == Len(t.batch_queries)
        IN  /\ t.split_level <= max_split_attempts
            /\ t.pc # "done" => n > 0
            /\ Len(t.batch_indices) = n /\ StrictlyIncreasing(t.batch_indices)
            /\ t.pc \in {"splitting", "sequential_left", "sequential_right"} =>
                   t.split_level < max_split_attempts /\ n > 1
            /\ id # 1 =>
                   /\ Parent(id) \in DOMAIN tasks
                   /\ tasks[Parent(id)].pc \in {"splitting", "sequential_left", "sequential_right"}
                   /\ n > 0
                   /\ t.split_level = tasks[Parent(id)].split_level + 1
                   /\ LET p == tasks[Parent(id)]
                          m == Len(p.batch_queries)
                          from == IF id = 2 * Parent(id) THEN 1 ELSE (m \div 2) + 1
                          to == IF id = 2 * Parent(id) THEN m \div 2 ELSE m
                      IN  /\ t.batch_queries = SubSeq(p.batch_queries, from, to)
                          /\ t.batch_indices = SubSeq(p.batch_indices, from, to)
            /\ (2 * id \in DOMAIN tasks /\ 2 * id + 1 \in DOMAIN tasks) =>
                   \A i \in DOMAIN tasks[2 * id].batch_indices :
                       \A j \in DOMAIN tasks[2 * id + 1].batch_indices :
                           tasks[2 * id].batch_indices[i] < tasks[2 * id + 1].batch_indices[j]

\* C25 witness: a batch of three queries was split into one and two, and the
\* right half was split again.
C25_Witness ==
    /\ Len(Root.batch_queries) = 3
    /\ Root.pc = "splitting"
    /\ 3 \in DOMAIN tasks /\ tasks[3].pc = "splitting"
    /\ {6, 7} \subseteq DOMAIN tasks
    /\ tasks[7].split_level = 2

\* The invocation stops waiting for its halves in this step.
Merges(id) ==
    /\ tasks[id].pc \in {"splitting", "sequential_right"}
    /\ tasks'[id].pc = "done"

\* C26: an invocation merges only when both of its halves have returned; it
\* succeeds exactly when both did, and its result is the left half's result
\* followed by the right half's, whichever half returned first and whatever
\* retries, fallbacks and splits the halves went through; so the result has
\* one entry per query, and an entry that holds a source text holds the text
\* of the query at its own position.
C26_MergeInOrder ==
    /\ [][\A id \in Staying :
            Merges(id) =>
                /\ {2 * id, 2 * id + 1} \subseteq DOMAIN tasks
                /\ tasks[2 * id].pc = "done" /\ tasks[2 * id + 1].pc = "done"
                /\ tasks'[id].success = (tasks[2 * id].success /\ tasks[2 * id + 1].success)
                /\ tasks'[id].partial_results =
                       tasks[2 * id].partial_results \o tasks[2 * id + 1].partial_results]_vars
    /\ [](\A id \in DOMAIN tasks :
            tasks[id].pc = "done" =>
                /\ Len(tasks[id].partial_results) = Len(tasks[id].batch_queries)
                /\ \A i \in DOMAIN tasks[id].filled :
                       tasks[id].filled[i] \in {"source", "fallback_source"} =>
                           tasks[id].partial_results[i] = tasks[id].batch_queries[i])

\* C26 witness: of a batch of three, the left half was translated and the
\* right half failed terminally; the merged result keeps the translation at
\* position 1 and the source texts at positions 2 and 3.
C26_Witness ==
    /\ Len(Root.batch_queries) = 3
    /\ Root.pc = "done" /\ Root.path = "merged" /\ ~Root.success
    /\ Root.filled = <<"model", "source", "source">>
    /\ Root.partial_results[1] # Root.batch_queries[1]
    /\ Root.partial_results[2] = Root.batch_queries[2]

-----------------------------------------------------------------------------
(* Properties of _request_with_retry's passes.                             *)

\* The requests call c has dispatched.
DispatchedBy(c) == {r \in DOMAIN req_tasks : req_tasks[r].call = c}

\* C29: every request a call dispatches, the first and every one after a
\* timeout, a rate-limit error or a server error, follows a _ratelimit_sleep
\* call of its own: the call has dispatched as many requests as it has made
\* _ratelimit_sleep calls, less the one it is still inside.
C29_ThrottleBeforeEveryDispatch ==
    \A c \in DOMAIN calls :
        Cardinality(DispatchedBy(c)) =
            calls[c].throttle_calls - (IF calls[c].pc = "throttle_sleep" THEN 1 ELSE 0)

\* C29 witness: a call is waiting for its fourth request; the earlier three
\* ended by a timeout, a rate-limit error and a server error.
C29_Witness ==
    \E c \in DOMAIN calls :
        /\ calls[c].pc = "waiting"
        /\ calls[c].throttle_calls = 4
        /\ {req_tasks[r].state : r \in DispatchedBy(c)} =
               {"cancelled", "RateLimited", "ServerError", "running"}

-----------------------------------------------------------------------------
(* Properties of _request_translation.                                     *)

\* Call c returns its cleaned text in this step.
Returns(c) == translations[c].pc = "awaiting" /\ translations'[c].pc = "returned"

\* C28: the two token counters change only in the step in which a
\* _request_translation call returns the text of a response; that step adds
\* the response's total_tokens to token_count and stores it in
\* token_count_last (a response without usage adds nothing and stores 0);
\* token_count never decreases; a request that raised, that had no choices or
\* no content, or that was cancelled leaves both counters as they were.
C28_TokenCounters ==
    /\ [][(\E c \in DOMAIN translations : Returns(c))
            \/ UNCHANGED <<token_count, token_count_last>>]_vars
    /\ [][\A c \in DOMAIN translations :
            Returns(c) =>
                LET usage == translations'[c].response.usage
                IN  IF usage = NO_USAGE
                    THEN token_count' = token_count /\ token_count_last' = 0
                    ELSE /\ token_count' = token_count + usage
                         /\ token_count_last' = usage]_vars
    /\ [][token_count' >= token_count]_vars

\* C28 witness: one call returned a response that reported MaxUsage tokens,
\* the other got a response without choices that reported one token; the
\* counters hold the first call's usage only.
C28_Witness ==
    \E c, d \in DOMAIN translations :
        /\ translations[c].pc = "returned"
        /\ translations[c].response.usage = MaxUsage
        /\ translations[d].pc = "raised" /\ translations[d].raised = "ValueError"
        /\ translations[d].response.usage = 1
        /\ token_count = MaxUsage /\ token_count_last = MaxUsage

\* The lines of the collapsed text whose first marker is the lowest, and the
\* highest, of the first markers of its lines.
MarkedLines(lines) == {i \in DOMAIN lines : HasMarker(lines[i])}

LowestMarked(lines) ==
    {i \in MarkedLines(lines) :
        \A j \in MarkedLines(lines) : FirstMarkerIndex(lines[i]) <= FirstMarkerIndex(lines[j])}

HighestMarked(lines) ==
    {i \in MarkedLines(lines) :
        \A j \in MarkedLines(lines) : FirstMarkerIndex(lines[j]) <= FirstMarkerIndex(lines[i])}

\* C30: when the lines of a response hold markers, the text returned is made
\* of the lines from a line with the lowest marker to a line with the highest
\* one, and it is not empty.
C30_Original ==
    \A c \in DOMAIN translations :
        LET call == translations[c]
            lines == Splitlines(Collapsed(call.response.choices[1].content))
        IN  (call.pc = "returned" /\ MarkedLines(lines) # {}) =>
                /\ call.cleaned_text # <<>>
                /\ \E lo \in LowestMarked(lines), hi \in HighestMarked(lines) :
                       call.cleaned_text = JoinLines(SubSeq(lines, lo, hi))

-----------------------------------------------------------------------------
(* Further properties of the fallback, the validation and the assembler.   *)

\* C36: whenever no invocation is inside _try_fallback_model, so that all
\* fallback activity so far has finished, keys.OPENAI_MODEL is what it was
\* before any fallback began.
C36_Original ==
    (\A id \in DOMAIN tasks : tasks[id].pc # "fallback") => keys_openai_model = OPENAI_MODEL

\* The answer holds marker 1 and a higher marker, and splits into several
\* segments none of which is empty.
Fragmented(resp) ==
    /\ \E i \in DOMAIN resp : resp[i] = Marker(1)
    /\ \E i \in DOMAIN resp : IsMarker(resp[i]) /\ MarkerIndex(resp[i]) > 1
    /\ Len(ParsedSegments(resp)) > 1
    /\ \A i \in DOMAIN ParsedSegments(resp) : ParsedSegments(resp)[i] # <<>>

\* C31: for a batch of one query whose answer is fragmented over markers 1
\* and above, the attempt's translations are the one text made of the whole
\* answer with its markers removed, and the attempt does not fail the strict
\* format check.
C31_Original ==
    (attempt_result.done /\ Len(batch_queries) = 1 /\ Fragmented(response_text)) =>
        /\ attempt_result.new_translations = << Strip(RemoveMarkers(response_text)) >>
        /\ attempt_result.reason # "format"


\* The positions of a batch whose source query is blank.
BlankPositions(bq) == {i \in DOMAIN bq : Strip(bq[i]) = <<>>}

\* The well-formed response of n lines whose segment is empty at the
\* positions of E and nowhere else.
WithEmptyAt(n, E) ==
    JoinLines([j \in 1..n |-> <<Marker(j)>> \o (IF j \in E THEN <<>> ELSE Segment(j))])

EmptyOnlyAtBlank(resp, bq) ==
    \E E \in SUBSET BlankPositions(bq) : E # {} /\ resp = WithEmptyAt(Len(bq), E)

\* C32: a response holding every marker 1..N once, whose segment is empty
\* only at positions whose source query is blank, passes the validation,
\* whichever position is the blank one, position 1 included.
C32_Original ==
    (attempt_result.done /\ EmptyOnlyAtBlank(response_text, batch_queries)) =>
        attempt_result.ok


\* A text made of punctuation marks only, the ideographic full stop being
\* one of them.
PurelyPunctuation(text) ==
    \A i \in DOMAIN text : text[i] \in STRING_PUNCTUATION \cup {"U+3002"}

\* C33: the merged-segment guard fails only if at some position the source
\* query is not purely punctuation while the produced segment is; a source
\* query that is itself purely punctuation, such as the ideographic full
\* stop, never makes the guard fail, whatever punctuation the segment holds.
C33_Original ==
    attempt_result.reason = "merged" =>
        \E i \in 1..Min(Len(batch_queries), Len(attempt_result.new_translations)) :
            /\ ~PurelyPunctuation(batch_queries[i])
            /\ PurelyPunctuation(attempt_result.new_translations[i])


\* The group of yielded chunks that holds position i of the query list.
GroupOf(i) ==
    CHOOSE k \in DOMAIN yielded : SumTo(YieldedSizes, k - 1) < i /\ i <= SumTo(YieldedSizes, k)

\* C34: every yielded group of more than one query costs, at length + 10 a
\* query, no more than the character budget of max tokens x 4; a query that
\* alone costs more than the budget is yielded in a group of its own, and is
\* never dropped.
C34_GroupsWithinBudget ==
    /\ \A k \in DOMAIN yielded :
          yielded[k].batch_size > 1 => TotalCost(chunk_queries[k]) <= MAX_CHAR_PER_PROMPT
    /\ asm_pc = "done" =>
          \A i \in DOMAIN asm_queries :
              Cost(asm_queries[i]) > MAX_CHAR_PER_PROMPT =>
                  /\ \E k \in DOMAIN yielded :
                        SumTo(YieldedSizes, k - 1) < i /\ i <= SumTo(YieldedSizes, k)
                  /\ yielded[GroupOf(i)].batch_size = 1
                  /\ chunk_queries[GroupOf(i)] = << asm_queries[i] >>
                  /\ yielded[GroupOf(i)].prompt = Prompt(<< asm_queries[i] >>)

\* C34 witness: a query list was cut into a group of several queries that
\* fills the budget to the last character, next to a group of one query that
\* alone costs more than the budget.
C34_Witness ==
    /\ asm_pc = "done"
    /\ \E k \in DOMAIN yielded :
          yielded[k].batch_size > 1 /\ TotalCost(chunk_queries[k]) = MAX_CHAR_PER_PROMPT
    /\ \E i \in DOMAIN asm_queries : Cost(asm_queries[i]) > MAX_CHAR_PER_PROMPT


-----------------------------------------------------------------------------
(* Properties of the registry of translators.                              *)

\* The call of get_translator or unload that ends in this step.
Ending == last_call'

\* C35: get_translator keeps one instance per key.  A call with a key that
\* holds an instance returns that instance, constructs nothing and ignores
\* its constructor arguments; after unload(key) the key holds none, and the
\* next get_translator(key) that returns has constructed a new instance of
\* its own arguments; a key outside the registry raises and leaves the cache
\* as it was.
C35_OneInstancePerKey ==
    [][last_call'.n # last_call.n =>
          /\ (Ending.op = "get_translator" /\ Ending.key \notin TRANSLATORS) =>
                 /\ Ending.raised
                 /\ translator_cache' = translator_cache
                 /\ instances' = instances
          /\ (Ending.op = "get_translator" /\ Ending.key \in DOMAIN translator_cache) =>
                 /\ ~Ending.raised
                 /\ Ending.result = translator_cache[Ending.key]
                 /\ translator_cache' = translator_cache
                 /\ instances' = instances
          /\ (Ending.op = "get_translator" /\ Ending.key \in TRANSLATORS \ DOMAIN translator_cache
                  /\ ~Ending.raised) =>
                 /\ Ending.result \notin DOMAIN instances
                 /\ instances' = Append(instances, [key |-> Ending.key, args |-> Ending.args])
                 /\ instances'[Ending.result] = [key |-> Ending.key, args |-> Ending.args]
                 /\ translator_cache'[Ending.key] = Ending.result
                 /\ \A k \in DOMAIN translator_cache : translator_cache'[k] = translator_cache[k]
          /\ Ending.op = "unload" =>
                 /\ Ending.key \notin DOMAIN translator_cache'
                 /\ \A k \in DOMAIN translator_cache \ {Ending.key} :
                        k \in DOMAIN translator_cache' /\ translator_cache'[k] = translator_cache[k]
                 /\ instances' = instances
          /\ \A k \in DOMAIN translator_cache' :
                 /\ k \in TRANSLATORS
                 /\ translator_cache'[k] \in DOMAIN instances'
                 /\ instances'[translator_cache'[k]].key = k]_vars

\* C35 witness: a key was unloaded and constructed again, and a later call
\* with the same key and other constructor arguments returned that second
\* instance.
C35_Witness ==
    /\ Len(instances) = 2
    /\ instances[1].key = instances[2].key
    /\ last_call.op = "get_translator"
    /\ last_call.key = instances[2].key
    /\ ~last_call.raised
    /\ last_call.result = 2
    /\ last_call.args # instances[2].args


-----------------------------------------------------------------------------
(* Further properties of _translate_batch.                                 *)

\* The ways an invocation returns.
RETURN_PATHS == {"empty", "primary", "fallback", "merged", "terminal"}

\* C37: however an invocation of _translate_batch returns (at once for an
\* empty batch, from an attempt, from the fallback, with the merged results
\* of its halves, or with the source texts), the list it returns holds one
\* entry per query of its batch.
C37_OneResultPerQuery ==
    \A id \in DOMAIN tasks :
        tasks[id].pc = "done" =>
            /\ tasks[id].path \in RETURN_PATHS
            /\ Len(tasks[id].partial_results) = Len(tasks[id].batch_queries)
            /\ Len(tasks[id].partial_results) = Len(tasks[id].batch_indices)
            /\ id = 1 => Len(tasks[id].partial_results) = Len(queries)

\* C37 witness: a batch of three returned the merged results of its halves:
\* the left half returned its source text after every attempt had failed,
\* the right half returned the fallback's answer, one segment of it empty.
C37_Witness ==
    /\ Len(queries) = 3
    /\ Root.pc = "done" /\ Root.path = "merged"
    /\ Root.filled = <<"source", "model", "fallback_source">>
    /\ Len(Root.partial_results) = 3


\* A prompt holds the queries qs: the markers <|1|> .. <|len(qs)|> once each
\* and in order, each followed at once by the query of its position.
PromptHolds(prompt, qs) ==
    LET pieces == SplitOn(prompt, MarkerTokens)
    IN  /\ MarkersOf(prompt) = [i \in DOMAIN qs |-> Marker(i)]
        /\ Len(pieces) = Len(qs) + 1
        /\ \A i \in DOMAIN qs :
              pieces[i + 1] = IF i < Len(qs) THEN qs[i] \o <<"\n">> ELSE qs[i]

\* The prompts made for the halves of a batch, and for the halves of these
\* down to the deepest split, hold the queries of their half.
RECURSIVE HalvesHold(_, _)
HalvesHold(bq, split_level) ==
    (split_level < MaxSplit /\ Len(bq) > 1) =>
        LET left_queries == SubSeq(bq, 1, Mid(bq))
            right_queries == SubSeq(bq, Mid(bq) + 1, Len(bq))
        IN  /\ ChunksOf(left_queries) = << left_queries >>
            /\ ChunksOf(right_queries) = << right_queries >>
            /\ PromptHolds(FirstPrompt(left_queries), left_queries)
            /\ PromptHolds(FirstPrompt(right_queries), right_queries)
            /\ HalvesHold(left_queries, split_level + 1)
            /\ HalvesHold(right_queries, split_level + 1)

\* C38: when a batch the assembler yielded is split, the first prompt the
\* assembler yields for each half holds every query of the half, under the
\* markers 1 .. len(half).
C38_HalfPromptsHoldTheirQueries ==
    \A k \in DOMAIN yielded : HalvesHold(chunk_queries[k], 0)

\* C38 witness: a batch of three queries that fills its budget to the last
\* character was yielded next to another batch; its right half holds two
\* queries.
C38_Witness ==
    /\ asm_pc = "done"
    /\ Len(yielded) >= 2
    /\ \E k \in DOMAIN yielded :
          /\ yielded[k].batch_size = 3
          /\ TotalCost(chunk_queries[k]) = MAX_CHAR_PER_PROMPT
          /\ ChunksOf(chunk_queries[k]) = << chunk_queries[k] >>
          /\ MarkersOf(FirstPrompt(SubSeq(chunk_queries[k], 2, 3))) = <<"<|1|>", "<|2|>">>


-----------------------------------------------------------------------------
(* Further properties of _request_with_retry.                              *)

\* The call has returned or raised.
Over(c) == calls[c].pc \in {"returned", "raised"}

\* _TIMEOUT_RETRY_ATTEMPTS + _RATELIMIT_RETRY_ATTEMPTS + _RETRY_ATTEMPTS + 1
DispatchLimit == timeout_retry_attempts + ratelimit_retry_attempts + retry_attempts + 1

\* C39: whatever its requests end with, a call of _request_with_retry
\* returns or raises, and has by then dispatched no more requests than the
\* three retry limits together and one.
C39_EndsWithinDispatchLimit ==
    /\ [](\A c \in DOMAIN calls : Cardinality(DispatchedBy(c)) <= DispatchLimit)
    /\ <>(\A c \in DOMAIN calls : Over(c))

\* C39 witness: with every limit at 1, the call returned the result of its
\* fourth request, after one timeout, one rate-limit error and one server
\* error.
C39_Witness ==
    /\ timeout_retry_attempts = 1 /\ ratelimit_retry_attempts = 1 /\ retry_attempts = 1
    /\ calls[1].pc = "returned"
    /\ calls[1].timeout_attempt = 1
    /\ calls[1].ratelimit_attempt = 1
    /\ calls[1].server_error_attempt = 1
    /\ Cardinality(DispatchedBy(1)) = DispatchLimit


\* C40: when a call of _request_with_retry has returned or raised, the
\* Timeout raised after the last allowed timeout included, none of the
\* requests it dispatched is still running, so none completes afterwards and
\* changes the token counters.
C40_Original ==
    /\ [](\A c \in DOMAIN calls : Over(c) => Outstanding(c) = {})
    /\ [][(\A c \in DOMAIN calls : Over(c)) =>
              /\ token_count' = token_count
              /\ token_count_last' = token_count_last]_vars

=============================================================================
